---- MODULE Spec2Model ----
(***************************************************************************)
(* Model of the offshoot core: ProductScraper (fetchPage, parseImages) and *)
(* ColorPrecision (analyzePixels, clusterColors, extractPalette,           *)
(* validateColors).  Strings whose content matters are sequences of        *)
(* one-character strings (hex colours) or of tokens (URLs, messages).      *)
(***************************************************************************)
EXTENDS Integers, Sequences, FiniteSets, TLC

VARIABLES
    \* ---- ProductScraper.fetchPage (one activation)
    fpPc,        \* "idle" | "fetch" (awaiting fetch()) | "body" (awaiting json()/text()) | "returned" | "thrown"
    fpIdx,       \* index into proxies of the attempt in progress
    lastError,   \* the local lastError
    fpResult,    \* what the activation returned or threw
    timers,      \* pending setTimeout callbacks, by the attempt that armed them
    contacted,   \* history: the proxies fetch() was called for, in call order
    attempts     \* history: per attempt, the event that ended it (timeout, network,
                 \* http, nulldata, bodyerror, or body with the html delivered) and
                 \* the message of the error it raised, if any

fetchVars == <<fpPc, fpIdx, lastError, fpResult, timers, attempts, contacted>>

VARIABLES
    \* ---- ColorPrecision
    brandColors, \* this.brandColors
    published,   \* history: the palettes completed extractPalette calls returned
    ex,          \* extractPalette activations, by call: pc, assets still to be
                 \* sampled, the local allColors, the palette returned
    val,         \* the validateColors activation: pc, the report returned, and
                 \* (history) the palette and image colours it read
    fc,          \* the last findClosestStyleColor call: its argument, the palette
                 \* it read (history) and what it returned
    \* ---- analyzePixels applied to a drawn buffer
    pixelData,   \* the flat RGBA buffer (imageData.data)
    sampled,     \* the colours analyzePixels returned for it
    samplerPc    \* "in" | "out"

colorVars == <<brandColors, published, ex, val, fc>>
samplerVars == <<pixelData, sampled, samplerPc>>

VARIABLES
    \* ---- ProductScraper.extractImages, from the return of fetchPage on
    pageHtml,    \* the page: the pieces of markup parseImages looks for
    eiPc,        \* "idle" | "fetched" (fetchPage has returned) | "returned" | "thrown"
    eiResult,    \* the images returned, or the message of the error thrown
    eiHistory,   \* history: what each run of parseImages on the page ended in
    productUrl,  \* the argument of extractImages
    heuristic    \* the last call of isProductImage: its argument and its answer

scraperVars == <<pageHtml, eiPc, eiResult, eiHistory, productUrl, heuristic>>

VARIABLES
    \* ---- the CORS proxy handler (one request)
    cpPc,        \* "idle" | "fetch" (awaiting the upstream fetch) | "text" | "buffer"
                 \* (awaiting the body) | "done" (response sent)
    cpReq,       \* the request: method, Origin header, url parameter
    cpRes,       \* the response: status, error, Access-Control-Allow-Origin
    cpUpstream,  \* history: the targets fetched upstream
    cpTimer      \* the 30 s timer is armed

proxyVars == <<cpPc, cpReq, cpRes, cpUpstream, cpTimer>>

(***************************************************************************)
(* ProductScraper: the proxy chain                                         *)
(***************************************************************************)

\* this.proxies
proxies ==
    << [name |-> "gcp",        type |-> "json", key |-> "contents"],
       [name |-> "allorigins", type |-> "json", key |-> "contents"],
       [name |-> "corsproxy",  type |-> "text", key |-> ""] >>

\* the length html must exceed
MinHtmlLength == 100

\* how far above the sanity length the longest modelled body is
ExtraLen == 50

\* HTTP statuses a relay answers with
Statuses == {200, 404, 503}

BodyLens == {0, MinHtmlLength - 1, MinHtmlLength, MinHtmlLength + 1, MinHtmlLength + ExtraLen}

\* JavaScript values html can take: a string of some length sent by relay id,
\* or undefined / null (field missing or null in the JSON wrapper)
StringValue(len, id) == [t |-> "string", len |-> len, id |-> id]
Undefined == [t |-> "undefined", len |-> 0, id |-> 0]
NullValue == [t |-> "null", len |-> 0, id |-> 0]

\* what response.json() can resolve with for relay k: null, or an object whose
\* `contents` is a string, null or absent
JsonBodies(k) ==
    {[t |-> "null", contents |-> Undefined]} \cup
    {[t |-> "object", contents |-> h] :
        h \in {Undefined, NullValue} \cup {StringValue(n, k) : n \in BodyLens}}

\* what response.text() can resolve with for relay k
TextBodies(k) == {StringValue(n, k) : n \in BodyLens}

\* JavaScript truthiness of an html value
Truthy(h) == h.t = "string" /\ h.len > 0

\* plausible slips in the length check
AcceptHtml_AtLeast(h) == Truthy(h) /\ h.len >= MinHtmlLength
AcceptHtml_Thousand(h) == Truthy(h) /\ h.len > 10 * MinHtmlLength

\* html && html.length > 100
AcceptHtml(h) == Truthy(h) /\ h.len > MinHtmlLength

NoError == [isNull |-> TRUE, message |-> <<>>]
ErrorOf(msg) == [isNull |-> FALSE, message |-> msg]

\* `All proxies failed. Last error: ${lastError?.message || 'Unknown'}`
AggregateMessage(err) ==
    <<"All proxies failed. Last error: ">> \o
        (IF err.isNull \/ err.message = <<>> THEN <<"Unknown">> ELSE err.message)

NoResult == [kind |-> "none", html |-> Undefined, message |-> <<>>]

\* a plausible slip: only the first failure is remembered
CaughtError_KeepFirst(msg) == IF lastError.isNull THEN ErrorOf(msg) ELSE lastError

\* catch (error) { ...; lastError = error; }
CaughtError(msg) == ErrorOf(msg)

\* a plausible slip: the loop steps over a proxy
ProxyAfter_Skip(k) == IF k + 2 < Len(proxies) THEN k + 2 ELSE Len(proxies)

\* for (const proxy of this.proxies): the proxy after the k-th
ProxyAfter(k) == k + 1

\* the catch block and the loop's next iteration, or the final throw when the
\* list is exhausted
AttemptFailed(event, msg, html) ==
    /\ attempts' = Append(attempts, [event |-> event, message |-> msg, html |-> html])
    /\ lastError' = CaughtError(msg)
    /\ IF fpIdx < Len(proxies)
         THEN /\ fpIdx' = ProxyAfter(fpIdx)
              /\ fpPc' = "fetch"
              /\ contacted' = Append(contacted, ProxyAfter(fpIdx))
              /\ timers' = (timers \ {fpIdx}) \cup
                              (IF event = "network" THEN {fpIdx} ELSE {}) \cup {ProxyAfter(fpIdx)}
              /\ fpResult' = fpResult
         ELSE /\ fpIdx' = fpIdx
              /\ fpPc' = "thrown"
              /\ contacted' = contacted
              /\ timers' = (timers \ {fpIdx}) \cup
                              (IF event = "network" THEN {fpIdx} ELSE {})
              /\ fpResult' = [kind |-> "error", html |-> Undefined,
                              message |-> AggregateMessage(CaughtError(msg))]

\* fetchPage(url) up to the first await fetch(...)
\* fetchPage is entered and runs to its first await: the first proxy is
\* fetched, its timer armed
FetchPageBegin ==
    /\ fpPc = "idle"
    /\ fpPc' = "fetch"
    /\ fpIdx' = 1
    /\ timers' = {1}
    /\ contacted' = <<1>>
    /\ UNCHANGED <<lastError, fpResult, attempts>>

FetchPageStart ==
    /\ FetchPageBegin
    /\ UNCHANGED <<colorVars, samplerVars, scraperVars, proxyVars>>

\* fetch() resolves with a response: clearTimeout, then the status check
FetchResolved(status) ==
    /\ fpPc = "fetch"
    /\ IF status = 200
         THEN /\ fpPc' = "body"
              /\ timers' = timers \ {fpIdx}
              /\ UNCHANGED <<fpIdx, lastError, fpResult, attempts, contacted>>
         ELSE AttemptFailed("http", <<"HTTP ", ToString(status)>>, Undefined)
    /\ UNCHANGED <<colorVars, samplerVars, scraperVars, proxyVars>>

\* fetch() rejects on its own (network failure): the timer stays armed
FetchRejected ==
    /\ fpPc = "fetch"
    /\ AttemptFailed("network", <<"Failed to fetch">>, Undefined)
    /\ UNCHANGED <<colorVars, samplerVars, scraperVars, proxyVars>>

\* a timer fires: controller.abort() rejects the fetch still in flight; the
\* timer of an attempt that already ended aborts nothing
TimeoutFired(k) ==
    /\ k \in timers
    /\ IF fpPc = "fetch" /\ k = fpIdx
         THEN AttemptFailed("timeout", <<"The user aborted a request.">>, Undefined)
         ELSE /\ timers' = timers \ {k}
              /\ UNCHANGED <<fpPc, fpIdx, lastError, fpResult, attempts, contacted>>
    /\ UNCHANGED <<colorVars, samplerVars, scraperVars, proxyVars>>

\* the html check once the body is there
HtmlArrived(html) ==
    IF AcceptHtml(html)
      THEN /\ fpPc' = "returned"
           /\ fpResult' = [kind |-> "html", html |-> html, message |-> <<>>]
           /\ attempts' = Append(attempts, [event |-> "body", message |-> <<>>, html |-> html])
           /\ UNCHANGED <<fpIdx, lastError, timers, contacted>>
      ELSE AttemptFailed("body", <<"Empty response">>, html)

\* response.json() resolves: html = data[proxy.key]
JsonResolved(data) ==
    /\ fpPc = "body"
    /\ proxies[fpIdx].type = "json"
    /\ IF data.t = "null"
         THEN AttemptFailed("nulldata", <<"Cannot read properties of null">>, Undefined)
         ELSE HtmlArrived(data.contents)
    /\ UNCHANGED <<colorVars, samplerVars, scraperVars, proxyVars>>

\* response.text() resolves
TextResolved(text) ==
    /\ fpPc = "body"
    /\ proxies[fpIdx].type # "json"
    /\ HtmlArrived(text)
    /\ UNCHANGED <<colorVars, samplerVars, scraperVars, proxyVars>>

\* response.json() / response.text() rejects: malformed JSON or a broken stream
BodyRejected ==
    /\ fpPc = "body"
    /\ IF proxies[fpIdx].type = "json"
         THEN AttemptFailed("bodyerror", <<"Unexpected token < in JSON">>, Undefined)
         ELSE AttemptFailed("bodyerror", <<"network error">>, Undefined)
    /\ UNCHANGED <<colorVars, samplerVars, scraperVars, proxyVars>>

(***************************************************************************)
(* ColorPrecision: hex strings, pixel sampling, clustering                 *)
(***************************************************************************)

HexDigits == <<"0", "1", "2", "3", "4", "5", "6", "7", "8", "9", "a", "b", "c", "d", "e", "f">>
UpperHexDigits == <<"0", "1", "2", "3", "4", "5", "6", "7", "8", "9", "A", "B", "C", "D", "E", "F">>

\* x.toString(16) for 0 <= x <= 255
ToString16(x) ==
    IF x < 16 THEN <<HexDigits[x + 1]>>
    ELSE <<HexDigits[(x \div 16) + 1], HexDigits[(x % 16) + 1]>>

Max2(a, b) == IF a > b THEN a ELSE b
Min2(a, b) == IF a < b THEN a ELSE b

\* x => { hex = Math.min(255, Math.max(0, x)).toString(16); pad to two digits }
HexComponent(x) ==
    LET hex == ToString16(Min2(255, Max2(0, x)))
    IN  IF Len(hex) = 1 THEN <<"0">> \o hex ELSE hex

\* rgbToHex(r, g, b)
rgbToHex(r, g, b) == <<"#">> \o HexComponent(r) \o HexComponent(g) \o HexComponent(b)

HexChars == {HexDigits[k] : k \in 1..16} \cup {UpperHexDigits[k] : k \in 1..16}

\* value of each hex digit, as parseInt(_, 16) reads it
HexValue ==
    [c \in HexChars |-> (CHOOSE k \in 1..16 : HexDigits[k] = c \/ UpperHexDigits[k] = c) - 1]

\* [a-f\d] under the i flag
IsHexDigit(c) == c \in HexChars

DigitValue(c) == HexValue[c]

NullRgb == [ok |-> FALSE, r |-> 0, g |-> 0, b |-> 0]

\* hexToRgb(hex): /^#?([a-f\d]{2})([a-f\d]{2})([a-f\d]{2})$/i, null otherwise
hexToRgb(hex) ==
    LET body == IF hex # <<>> /\ hex[1] = "#" THEN Tail(hex) ELSE hex
    IN  IF Len(body) = 6 /\ \A k \in 1..6 : IsHexDigit(body[k])
          THEN [ok |-> TRUE,
                r |-> 16 * DigitValue(body[1]) + DigitValue(body[2]),
                g |-> 16 * DigitValue(body[3]) + DigitValue(body[4]),
                b |-> 16 * DigitValue(body[5]) + DigitValue(body[6])]
          ELSE NullRgb

\* the sum under the square root of colorDistance(c1, c2)
SumOfSquares(c1, c2) ==
    (c1.r - c2.r) * (c1.r - c2.r) + (c1.g - c2.g) * (c1.g - c2.g) + (c1.b - c2.b) * (c1.b - c2.b)

\* a slip: the square root is forgotten
DistanceBelow_NoSqrt(c1, c2, t) == SumOfSquares(c1, c2) < t

\* this.colorDistance(c1, c2) < t, for an integer t: Math.sqrt is monotone and
\* exact on perfect squares, so sqrt(s) < t exactly when s < t * t
DistanceBelow(c1, c2, t) == SumOfSquares(c1, c2) < t * t

\* analyzePixels: sample every 4th pixel
SampleStep == 4
\* analyzePixels: alpha below which a pixel is skipped
AlphaThreshold == 128
\* analyzePixels: quantization bucket
Bucket == 32
\* analyzePixels: slice(0, 20)
TopColors == 20
\* clusterColors: result.length >= 8
MaxPaletteSize == 8
\* clusterColors: threshold
DistanceThreshold == 50
\* clusterColors: brightness bounds
MinBrightness == 20
MaxBrightness == 235
\* validateColors: colorDistance < 60
MatchThreshold == 60

\* Math.round(x / 32) * 32 for x >= 0
Quantize(x) == ((2 * x + Bucket) \div (2 * Bucket)) * Bucket

\* counts[key] = (counts[key] || 0) + 1 on an object whose keys keep insertion order
Bump(counts, key) ==
    IF \E k \in 1..Len(counts) : counts[k].key = key
      THEN [k \in 1..Len(counts) |->
              IF counts[k].key = key THEN [key |-> key, n |-> counts[k].n + 1] ELSE counts[k]]
      ELSE Append(counts, [key |-> key, n |-> 1])

\* where a stable descending sort puts e among the already sorted entries
InsertSorted(sorted, e) ==
    LET pos == Cardinality({k \in 1..Len(sorted) : sorted[k].n >= e.n})
    IN  SubSeq(sorted, 1, pos) \o <<e>> \o SubSeq(sorted, pos + 1, Len(sorted))

RECURSIVE SortFrom(_, _, _)
SortFrom(entries, k, sorted) ==
    IF k > Len(entries) THEN sorted
    ELSE SortFrom(entries, k + 1, InsertSorted(sorted, entries[k]))

\* a plausible slip: the entries are left in insertion order
SortByCount_Unsorted(entries) == entries

\* Object.entries(counts).sort((a, b) => b[1] - a[1]): stable, descending
SortByCount(entries) == SortFrom(entries, 1, <<>>)

Keys(entries) == [k \in 1..Len(entries) |-> entries[k].key]

\* a slip: a pixel of alpha exactly 128 is skipped too
IsTransparent_Inclusive(a) == a <= AlphaThreshold

\* if (a < 128) continue
IsTransparent(a) == a < AlphaThreshold

\* the for loop of analyzePixels; i is the JavaScript index into the flat buffer
RECURSIVE SamplePixels(_, _, _)
SamplePixels(pixels, i, colorCounts) ==
    IF i >= Len(pixels) THEN colorCounts
    ELSE LET r == pixels[i + 1]
             g == pixels[i + 2]
             b == pixels[i + 3]
             a == pixels[i + 4]
         IN  IF IsTransparent(a)
               THEN SamplePixels(pixels, i + 4 * SampleStep, colorCounts)
               ELSE SamplePixels(pixels, i + 4 * SampleStep,
                                 Bump(colorCounts, rgbToHex(Quantize(r), Quantize(g), Quantize(b))))

\* analyzePixels(pixels)
analyzePixels(pixels) ==
    LET sorted == Keys(SortByCount(SamplePixels(pixels, 0, <<>>)))
    IN  SubSeq(sorted, 1, Min2(TopColors, Len(sorted)))

RECURSIVE CountColors(_, _, _)
CountColors(colors, k, counts) ==
    IF k > Len(colors) THEN counts
    ELSE CountColors(colors, k + 1, Bump(counts, colors[k]))

\* a slip: the cap is checked off by one
PaletteFull_OffByOne(result) == Len(result) > MaxPaletteSize

\* if (result.length >= 8) break
PaletteFull(result) == Len(result) >= MaxPaletteSize

\* result.some(existing => colorDistance(rgb, existingRgb) < threshold)
HasSimilar(result, rgb) ==
    \E k \in 1..Len(result) :
        LET existingRgb == hexToRgb(result[k])
        IN  existingRgb.ok /\ DistanceBelow(rgb, existingRgb, DistanceThreshold)

\* a slip: only the dark end is filtered
BrightnessOk_DarkOnly(rgb) == rgb.r + rgb.g + rgb.b > 3 * MinBrightness

\* brightness = (r + g + b) / 3; brightness > 20 && brightness < 235
BrightnessOk(rgb) ==
    /\ rgb.r + rgb.g + rgb.b > 3 * MinBrightness
    /\ rgb.r + rgb.g + rgb.b < 3 * MaxBrightness

\* the for loop of clusterColors over the sorted colours
RECURSIVE ClusterWalk(_, _, _)
ClusterWalk(sorted, k, result) ==
    IF k > Len(sorted) \/ PaletteFull(result) THEN result
    ELSE LET color == sorted[k]
             rgb == hexToRgb(color)
         IN  IF ~rgb.ok THEN ClusterWalk(sorted, k + 1, result)
             ELSE IF ~HasSimilar(result, rgb) /\ BrightnessOk(rgb)
                    THEN ClusterWalk(sorted, k + 1, Append(result, color))
                    ELSE ClusterWalk(sorted, k + 1, result)

\* clusterColors(colors)
clusterColors(colors) ==
    IF Len(colors) = 0 THEN <<>>
    ELSE ClusterWalk(Keys(SortByCount(CountColors(colors, 1, <<>>))), 1, <<>>)

(***************************************************************************)
(* ColorPrecision: extractPalette and validateColors                       *)
(***************************************************************************)

\* pixels never visited by the stride
Filler == <<7, 7, 7, 255>>

\* the flat buffer of a sequence of RGBA pixels
Flatten(ps) == [j \in 1..(4 * Len(ps)) |-> ps[((j - 1) \div 4) + 1][((j - 1) % 4) + 1]]

\* a buffer whose sampled pixels (every 4th) are ps, with filler between them
Spread(ps) ==
    IF Len(ps) = 0 THEN <<>>
    ELSE Flatten([q \in 1..(4 * (Len(ps) - 1) + 1) |->
                    IF (q - 1) % 4 = 0 THEN ps[((q - 1) \div 4) + 1] ELSE Filler])

Opaque(r, g, b) == <<r, g, b, 255>>

\* ten mid-brightness colours, pairwise at distance 64 or more
RichPixels ==
    << Opaque(64, 64, 64), Opaque(128, 64, 64), Opaque(64, 128, 64), Opaque(64, 64, 128),
       Opaque(128, 128, 64), Opaque(128, 64, 128), Opaque(64, 128, 128), Opaque(128, 128, 128),
       Opaque(192, 64, 64), Opaque(64, 192, 64) >>

\* the images of a batch: an image one pixel high that decodes to the pixel
\* data px, or an image whose load fails
DecodedImage(px) == [decodes |-> TRUE, width |-> Len(px) \div 4, height |-> 1, pixels |-> px]
BrokenImage == [decodes |-> FALSE, width |-> 0, height |-> 0, pixels |-> <<>>]

\* an image that decodes, 300 pixels wide and one high; its pixels are never
\* read
SliverImage == [decodes |-> TRUE, width |-> 300, height |-> 1, pixels |-> <<>>]

\* the longest side the canvas gets
MaxCanvasSide == 100

\* canvas.width = img.width * scale, scale = Math.min(1, 100 / Math.max(w, h));
\* the canvas keeps the integer part
CanvasSide(side, img) ==
    LET longest == Max2(img.width, img.height)
    IN  IF longest <= MaxCanvasSide THEN side ELSE (side * MaxCanvasSide) \div longest

\* ctx.getImageData(0, 0, canvas.width, canvas.height) throws IndexSizeError
\* for a canvas side of 0; the exception leaves the onload handler, resolve is
\* never called and nothing rejects the promise
LoadThrows(img) ==
    /\ img.decodes
    /\ \/ CanvasSide(img.width, img) = 0
       \/ CanvasSide(img.height, img) = 0

AssetImages ==
    { DecodedImage(Spread(<<Opaque(255, 0, 0), Opaque(250, 5, 3), Opaque(0, 0, 0)>>)),
      DecodedImage(Spread(<<Opaque(224, 32, 32), Opaque(0, 0, 255)>>)),
      DecodedImage(Spread(<<Opaque(255, 255, 255), Opaque(0, 0, 0), Opaque(224, 0, 0)>>)),
      DecodedImage(Spread(RichPixels)),
      DecodedImage(Spread(<<<<255, 0, 0, 0>>, <<0, 255, 0, 100>>>>)),
      BrokenImage }

\* what extractColorsFromImage resolves with for each asset image: img.onload
\* resolves analyzePixels of the canvas data, img.onerror resolves []
AssetColors ==
    [img \in AssetImages |-> IF img.decodes THEN analyzePixels(img.pixels) ELSE <<>>]

\* extractColorsFromImage(dataUrl)
extractColorsFromImage(img) == AssetColors[img]

\* the activations modelled
Calls == {1}
\* assets in one batch, at most
MaxAssets == 2

\* one activation of extractPalette; size is assets.length and assets is the
\* history of the images whose promise has resolved, in order
IdleCall == [pc |-> "idle", remaining |-> 0, allColors |-> <<>>, ret |-> <<>>,
             size |-> 0, assets |-> <<>>]

\* extractPalette(assets) with n assets, up to its first await; with no asset
\* the loop body never runs and the call completes at once
ExtractPaletteStart(c, n) ==
    /\ ex[c].pc \in {"idle", "done"}
    /\ IF n = 0
         THEN /\ brandColors' = clusterColors(<<>>)
              /\ published' = published \cup {clusterColors(<<>>)}
              /\ ex' = [ex EXCEPT ![c] = [pc |-> "done", remaining |-> 0, allColors |-> <<>>,
                                          ret |-> clusterColors(<<>>),
                                          size |-> 0, assets |-> <<>>]]
         ELSE /\ ex' = [ex EXCEPT ![c] = [pc |-> "await", remaining |-> n, allColors |-> <<>>,
                                          ret |-> <<>>, size |-> n, assets |-> <<>>]]
              /\ UNCHANGED <<brandColors, published>>
    /\ UNCHANGED <<val, fc>>
    /\ UNCHANGED <<fetchVars, samplerVars, scraperVars, proxyVars>>

\* a plausible slip: the colours are pushed to this.brandColors itself
StoredAfterAsset_InPlace(stored, allColors, last) ==
    IF last THEN clusterColors(allColors) ELSE allColors

\* this.brandColors once an asset has resolved: allColors is a local of the
\* call, and the one assignment follows the loop
StoredAfterAsset(stored, allColors, last) ==
    IF last THEN clusterColors(allColors) ELSE stored

\* the awaited extractColorsFromImage(asset.dataUrl) resolves: push, then the
\* next asset, or after the last one cluster, store and return
ImageResolved(c, img) ==
    /\ ex[c].pc = "await"
    /\ ~LoadThrows(img)
    /\ LET allColors == ex[c].allColors \o extractColorsFromImage(img)
           last == ex[c].remaining <= 1
           dominantColors == clusterColors(allColors)
       IN  /\ brandColors' = StoredAfterAsset(brandColors, allColors, last)
           /\ IF last
                THEN /\ ex' = [ex EXCEPT ![c] = [pc |-> "done", remaining |-> 0,
                                                 allColors |-> allColors,
                                                 ret |-> dominantColors,
                                                 size |-> ex[c].size,
                                                 assets |-> Append(ex[c].assets, img)]]
                     /\ published' = published \cup {dominantColors}
                ELSE /\ ex' = [ex EXCEPT ![c].remaining = @ - 1, ![c].allColors = allColors,
                                         ![c].assets = Append(@, img)]
                     /\ UNCHANGED published
    /\ UNCHANGED <<val, fc>>
    /\ UNCHANGED <<fetchVars, samplerVars, scraperVars, proxyVars>>

\* the load event of the awaited image fires and its handler throws: the
\* promise stays pending, so this activation of extractPalette never resumes
ImageLoadThrew(c, img) ==
    /\ ex[c].pc = "await"
    /\ LoadThrows(img)
    /\ ex' = [ex EXCEPT ![c].pc = "stalled", ![c].assets = Append(@, img)]
    /\ UNCHANGED <<brandColors, published, val, fc>>
    /\ UNCHANGED <<fetchVars, samplerVars, scraperVars, proxyVars>>

\* a slip: the clustering threshold is used for matching
WithinMatch_ClusterThreshold(brandRgb, imageRgb) ==
    DistanceBelow(brandRgb, imageRgb, DistanceThreshold)

\* this.colorDistance(brandRgb, imageRgb) < 60
WithinMatch(brandRgb, imageRgb) == DistanceBelow(brandRgb, imageRgb, MatchThreshold)

\* the inner loop of validateColors: the index of the first image colour that
\* matches, 0 when none does
RECURSIVE FirstMatch(_, _, _)
FirstMatch(brandRgb, imageColors, j) ==
    IF j > Len(imageColors) THEN 0
    ELSE LET imageRgb == hexToRgb(imageColors[j])
         IN  IF imageRgb.ok /\ WithinMatch(brandRgb, imageRgb) THEN j
             ELSE FirstMatch(brandRgb, imageColors, j + 1)

\* the outer loop of validateColors
RECURSIVE MatchWalk(_, _, _, _)
MatchWalk(brand, imageColors, k, matches) ==
    IF k > Len(brand) THEN matches
    ELSE LET brandRgb == hexToRgb(brand[k])
             j == IF brandRgb.ok THEN FirstMatch(brandRgb, imageColors, 1) ELSE 0
         IN  IF j = 0 THEN MatchWalk(brand, imageColors, k + 1, matches)
             ELSE MatchWalk(brand, imageColors, k + 1,
                            Append(matches, [brand |-> brand[k], image |-> imageColors[j]]))

\* a score (matchCount / total) * 100 is kept as the fraction num / den
ZeroReport == [score |-> [num |-> 0, den |-> 1], matches |-> <<>>]

\* the report validateColors computes once the image colours are there
ColorReport(brand, imageColors) ==
    IF Len(brand) = 0 \/ Len(imageColors) = 0 THEN ZeroReport
    ELSE LET matches == MatchWalk(brand, imageColors, 1, <<>>)
             matchCount == Len(matches)
         IN  [score |-> [num |-> matchCount * 100, den |-> Len(brand)], matches |-> matches]

IdleVal == [pc |-> "idle", ret |-> ZeroReport, seen |-> [brand |-> <<>>, image |-> <<>>]]

\* validateColors(imageUrl) up to its await
ValidateStart ==
    /\ val.pc \in {"idle", "done"}
    /\ val' = [IdleVal EXCEPT !.pc = "await"]
    /\ UNCHANGED <<brandColors, published, ex, fc>>
    /\ UNCHANGED <<fetchVars, samplerVars, scraperVars, proxyVars>>

\* the awaited extractColorsFromImage(imageUrl) resolves; this.brandColors is
\* read now
ValidateResolved(img) ==
    /\ val.pc = "await"
    /\ ~LoadThrows(img)
    /\ LET imageColors == extractColorsFromImage(img)
       IN  val' = [pc |-> "done", ret |-> ColorReport(brandColors, imageColors),
                   seen |-> [brand |-> brandColors, image |-> imageColors]]
    /\ UNCHANGED <<brandColors, published, ex, fc>>
    /\ UNCHANGED <<fetchVars, samplerVars, scraperVars, proxyVars>>

\* null, or a colour of the palette
NoColor == [isNull |-> TRUE, color |-> <<>>]
SomeColor(hex) == [isNull |-> FALSE, color |-> hex]

\* minDistance = Infinity: above the squared distance of any two colours
Infinity == 3 * 255 * 255 + 1

\* a plausible slip: only the first entry is ever taken
Closer_FirstOnly(distance, minDistance) == minDistance = Infinity

\* distance < minDistance, both kept squared
Closer(distance, minDistance) == distance < minDistance

\* the loop of findClosestStyleColor
RECURSIVE ClosestWalk(_, _, _, _, _)
ClosestWalk(palette, k, rgb, closest, minDistance) ==
    IF k > Len(palette) THEN closest
    ELSE LET brandRgb == hexToRgb(palette[k])
             distance == SumOfSquares(rgb, brandRgb)
         IN  IF brandRgb.ok /\ Closer(distance, minDistance)
             THEN ClosestWalk(palette, k + 1, rgb, SomeColor(palette[k]), distance)
             ELSE ClosestWalk(palette, k + 1, rgb, closest, minDistance)

\* findClosestStyleColor(hex), this.brandColors being palette
findClosestStyleColor(hex, palette) ==
    IF Len(palette) = 0 THEN NoColor
    ELSE LET rgb == hexToRgb(hex)
         IN  IF ~rgb.ok THEN NoColor
             ELSE ClosestWalk(palette, 1, rgb, NoColor, Infinity)

IdleClosest == [pc |-> "idle", hex |-> <<>>, seen |-> <<>>, ret |-> NoColor]

\* a call of findClosestStyleColor: synchronous, it reads this.brandColors as
\* it is at the call
FindClosest(hex) ==
    /\ fc' = [pc |-> "done", hex |-> hex, seen |-> brandColors,
              ret |-> findClosestStyleColor(hex, brandColors)]
    /\ UNCHANGED <<brandColors, published, ex, val>>
    /\ UNCHANGED <<fetchVars, samplerVars, scraperVars, proxyVars>>

\* analyzePixels applied to the drawn buffer
AnalyzePixels ==
    /\ samplerPc = "in"
    /\ sampled' = analyzePixels(pixelData)
    /\ samplerPc' = "out"
    /\ UNCHANGED pixelData
    /\ UNCHANGED <<fetchVars, colorVars, scraperVars, proxyVars>>

(***************************************************************************)
(* ProductScraper: image discovery in a fetched page                       *)
(*                                                                         *)
(* A URL string is a sequence of tokens, each a literal piece of its text. *)
(* A search for a word looks inside every token; no word the code searches *)
(* for straddles two tokens of the strings used here.                      *)
(***************************************************************************)

\* the host names that occur in the strings used here
Hosts == {"shop.example", "cdn.example", "m.media-amazon.com", "cdn.shopify.com"}

\* String.prototype.toLowerCase, on one token
LowerToken(tok) ==
    CASE tok = "Logo" -> "logo"
      [] tok = "_SS40" -> "_ss40"
      [] tok = "_SS50" -> "_ss50"
      [] tok = ".JPG" -> ".jpg"
      [] tok = "._AC_SX466_" -> "._ac_sx466_"
      [] tok = "._A_1_" -> "._a_1_"
      [] OTHER -> tok

toLowerCase(url) == [k \in 1..Len(url) |-> LowerToken(url[k])]

\* the words the code searches for that occur in the text of one token
WordsIn(tok) ==
    CASE tok \in {"https://", "http://", "httpx://"} -> {"http"}
      [] tok = "data:" -> {"data:"}
      [] tok = "m.media-amazon.com" -> {"amazon"}
      [] tok = "cdn.shopify.com" -> {"shopify", "cdn.shopify"}
      [] tok = "/images/" -> {"images"}
      [] tok = "transparent-pixel" -> {"transparent-pixel", "pixel"}
      [] tok \in {"logo", "icon", "sprite", "nav-", "button", "badge", "banner", "arrow",
                  "checkbox", "pixel", "blank", "_SS40", "_SS50"} -> {tok}
      [] OTHER -> {}

\* String.prototype.includes
includes(url, word) == \E k \in 1..Len(url) : word \in WordsIn(url[k])

\* the prefixes the code tests for that the text of a first token starts with
PrefixesOf(tok) ==
    CASE tok \in {"https://", "http://", "httpx://"} -> {"http"}
      [] tok = "//" -> {"//", "/"}
      [] tok \in {"/img/", "/images/", "/s/files/", "/p"} -> {"/"}
      [] OTHER -> {}

\* String.prototype.startsWith
startsWith(url, prefix) == Len(url) > 0 /\ prefix \in PrefixesOf(url[1])

\* the number of characters of one token
TokenLength(tok) ==
    CASE tok \in {"https://", "httpx://"} -> 8
      [] tok = "http://" -> 7
      [] tok = "//" -> 2
      [] tok \in {"/img/", "data:", "badge", "arrow", "pixel", "blank", "thumb", "_SS40", "_SS50",
                  ".jpeg", ".webp"} -> 5
      [] tok = "shop.example" -> 12
      [] tok = "cdn.example" -> 11
      [] tok = "m.media-amazon.com" -> 18
      [] tok = "cdn.shopify.com" -> 15
      [] tok \in {"/images/", "checkbox", "_200x200"} -> 8
      [] tok = "/s/files/" -> 9
      [] tok \in {"logo", "Logo", "icon", "nav-", ".jpg", ".JPG", ".png", ".gif", ".svg"} -> 4
      [] tok \in {"sprite", "button", "banner", "._A_1_"} -> 6
      [] tok = "transparent-pixel" -> 17
      [] tok = "._AC_SX466_" -> 11
      [] tok = "gallery-view-of-the-product-photographed-from-the-front-0001" -> 60
      [] tok \in {"2x", "/p"} \cup {ToString(n) : n \in 10..99} -> 2
      [] OTHER -> 1     \* "a", "b", ".", " ", "'", the double quote

RECURSIVE StringLength(_)
StringLength(url) == IF url = <<>> THEN 0 ELSE TokenLength(Head(url)) + StringLength(Tail(url))

\* new URL(url) returns rather than throws: the string has a scheme, and an
\* http(s) URL has a host; any other scheme (data:, httpx:) parses as well
CanParseUrl(url) ==
    \/ Len(url) >= 2 /\ url[1] \in {"https://", "http://"} /\ url[2] \in Hosts
    \/ Len(url) >= 2 /\ url[1] \in {"data:", "httpx://"}

\* url.split(sep)[0]
SplitFirst(url, sep) ==
    LET at == {k \in 1..Len(url) : url[k] = sep}
    IN  IF at = {} THEN url
        ELSE SubSeq(url, 1, (CHOOSE k \in at : \A j \in at : k <= j) - 1)

\* url.replace(regex, '.') for a regex that matches whole tokens: the first
\* matching token becomes "."
ReplaceFirst(url, matching) ==
    LET at == {k \in 1..Len(url) : url[k] \in matching}
    IN  IF at = {} THEN url
        ELSE [url EXCEPT ![CHOOSE k \in at : \A j \in at : k <= j] = "."]

\* tokens /\._[A-Z]{2}\d*_?[A-Z]*\d*_/ matches
AmazonSizeTokens == {"._AC_SX466_"}
\* tokens /\._[A-Z]+_\d+_/ matches
AmazonSizeTokens2 == {"._A_1_"}
\* tokens /_\d+x\d*/ matches
ShopifySizeTokens == {"_200x200"}

\* the text of the token starts with "."
StartsWithDot(tok) == tok \in {".", ".jpg", ".jpeg", ".png", ".webp", ".gif", ".JPG", ".svg"}

\* url.replace(/_\d+x\d*\./, '.'): the match is a size token and the dot that
\* starts the next token, so the size token goes and the dot stays
DropShopifySize(url) ==
    LET at == {k \in 1..(Len(url) - 1) : url[k] \in ShopifySizeTokens /\ StartsWithDot(url[k + 1])}
    IN  IF at = {} THEN url
        ELSE LET k == CHOOSE i \in at : \A j \in at : i <= j
             IN  SubSeq(url, 1, k - 1) \o SubSeq(url, k + 1, Len(url))

cleanImageUrl(url) ==
    LET cut == SplitFirst(SplitFirst(SplitFirst(url, "\""), "'"), " ")
        amazon == IF includes(cut, "amazon") \/ includes(cut, "ssl-images-amazon")
                  THEN ReplaceFirst(ReplaceFirst(cut, AmazonSizeTokens), AmazonSizeTokens2)
                  ELSE cut
    IN  IF includes(amazon, "shopify") \/ includes(amazon, "cdn.shopify")
        THEN DropShopifySize(amazon)
        ELSE amazon

\* /\.(jpg|jpeg|png|webp|gif)/i.test(url)
ImageExtensionTest(url) ==
    \E k \in 1..Len(url) : LowerToken(url[k]) \in {".jpg", ".jpeg", ".png", ".webp", ".gif"}

\* the literals isProductImage looks for in the lowercased URL
SkippedWords ==
    {"logo", "icon", "sprite", "nav-", "button", "badge", "banner", "arrow", "checkbox",
     "_SS40", "_SS50", "transparent-pixel"}

isProductImage(url) ==
    LET lowUrl == toLowerCase(url)
    IN  IF \E word \in SkippedWords : includes(lowUrl, word)
        THEN FALSE
        ELSE ImageExtensionTest(url)

IdleHeuristic == [pc |-> "idle", url |-> <<>>, ret |-> FALSE]

\* a call of isProductImage
CheckProductImage(url) ==
    /\ heuristic' = [pc |-> "done", url |-> url, ret |-> isProductImage(url)]
    /\ UNCHANGED <<pageHtml, eiPc, eiResult, eiHistory, productUrl>>
    /\ UNCHANGED <<fetchVars, colorVars, samplerVars, proxyVars>>

\* normalizeUrl of modules/product-scraper.js; "https:" put before "//" reads "https://"
normalizeUrl(url, origin) ==
    IF startsWith(url, "//") THEN <<"https://">> \o Tail(url)
    ELSE IF startsWith(url, "/") THEN origin \o url
    ELSE IF ~startsWith(url, "http") THEN origin \o <<"/">> \o url
    ELSE url

\* ---- JSON values: what JSON.parse returns, or that it throws
JsonValue(t, s, items, fields) == [t |-> t, s |-> s, items |-> items, fields |-> fields]
JUndefined == JsonValue("undefined", <<>>, <<>>, <<>>)
JNull == JsonValue("null", <<>>, <<>>, <<>>)
JNumber == JsonValue("number", <<>>, <<>>, <<>>)          \* a number other than 0
JString(s) == JsonValue("string", s, <<>>, <<>>)
JArray(items) == JsonValue("array", <<>>, items, <<>>)
JObject(fields) == JsonValue("object", <<>>, <<>>, fields) \* fields: <<[k, v], ...>>, keys distinct
JInvalid == JsonValue("invalid", <<>>, <<>>, <<>>)        \* text JSON.parse rejects
Member(k, v) == [k |-> k, v |-> v]

\* data[key]
Property(data, key) ==
    LET at == {i \in 1..Len(data.fields) : data.fields[i].k = key}
    IN  IF data.t # "object" \/ at = {} THEN JUndefined
        ELSE data.fields[CHOOSE i \in at : TRUE].v

\* the value is truthy
JTruthy(v) ==
    \/ v.t \in {"number", "array", "object"}
    \/ v.t = "string" /\ v.s # <<>>

\* typeof value === 'object'
TypeofObject(v) == v.t \in {"null", "array", "object"}

\* a plausible slip: a collection whose iteration order is not the insertion
\* order but changes from one run to the next
SetAdd_RunDependentOrder(images, url) ==
    IF \E k \in 1..Len(images) : images[k] = url THEN images
    ELSE IF Len(eiHistory) % 2 = 0 THEN Append(images, url)
    ELSE <<url>> \o images

\* a plausible slip: a list in place of the Set
SetAdd_NoDedupe(images, url) == Append(images, url)

\* images.add(url) on the Set, kept in insertion order
SetAdd(images, url) ==
    IF \E k \in 1..Len(images) : images[k] = url THEN images ELSE Append(images, url)

\* ---- extractFromJsonLd; acc is the Set and whether a TypeError is on its way
\* to the catch of parseImages
Collected(images) == [images |-> images, threw |-> FALSE]

\* (v?.url && v.url.startsWith('http')) then images.add(cleanImageUrl(v.url))
AddUrlProperty(v, acc) ==
    LET url == Property(v, <<"url">>)
    IN  IF ~JTruthy(url) THEN acc
        ELSE IF url.t # "string" THEN [acc EXCEPT !.threw = TRUE]
        ELSE IF startsWith(url.s, "http")
             THEN [acc EXCEPT !.images = SetAdd(@, cleanImageUrl(url.s))]
        ELSE acc

\* data[key].forEach(img => ...)
RECURSIVE ForEachImg(_, _, _)
ForEachImg(items, i, acc) ==
    IF i > Len(items) \/ acc.threw THEN acc
    ELSE LET img == items[i]
         IN  ForEachImg(items, i + 1,
                 IF img.t = "string" /\ startsWith(img.s, "http")
                 THEN [acc EXCEPT !.images = SetAdd(@, cleanImageUrl(img.s))]
                 ELSE AddUrlProperty(img, acc))

ImageKeys == <<"image", "images", "photo", "photos", "thumbnail">>

\* ['image', ...].forEach(key => ...)
RECURSIVE ForEachKey(_, _, _)
ForEachKey(data, i, acc) ==
    IF i > Len(ImageKeys) \/ acc.threw THEN acc
    ELSE LET v == Property(data, <<ImageKeys[i]>>)
         IN  ForEachKey(data, i + 1,
                 IF ~JTruthy(v) THEN acc
                 ELSE IF v.t = "string" /\ startsWith(v.s, "http")
                      THEN [acc EXCEPT !.images = SetAdd(@, cleanImageUrl(v.s))]
                 ELSE IF v.t = "array" THEN ForEachImg(v.items, 1, acc)
                 ELSE AddUrlProperty(v, acc))

RECURSIVE extractFromJsonLd(_, _)
RECURSIVE ForEachItem(_, _, _)
RECURSIVE ForEachValue(_, _, _)

extractFromJsonLd(data, acc) ==
    IF acc.threw THEN acc
    ELSE IF data.t = "array" THEN ForEachItem(data.items, 1, acc)
    ELSE IF data.t # "object" THEN acc
    ELSE ForEachValue(data.fields, 1, ForEachKey(data, 1, acc))

\* data.forEach(item => this.extractFromJsonLd(item, images))
ForEachItem(items, i, acc) ==
    IF i > Len(items) \/ acc.threw THEN acc
    ELSE ForEachItem(items, i + 1, extractFromJsonLd(items[i], acc))

\* Object.values(data).forEach(value => ...)
ForEachValue(fields, i, acc) ==
    IF i > Len(fields) \/ acc.threw THEN acc
    ELSE ForEachValue(fields, i + 1,
             IF TypeofObject(fields[i].v) THEN extractFromJsonLd(fields[i].v, acc) ELSE acc)

\* ---- the page: the pieces of markup the patterns of parseImages match, in
\* document order.  tag names the attribute or element, urls its value (one
\* string, or the comma-separated parts of a srcset), json its JSON text parsed
Element(tag, urls, json) == [tag |-> tag, urls |-> urls, json |-> json]

dataAttrs == <<"data-src", "data-zoom-image", "data-large", "data-full", "data-original", "data-old-hires">>

\* the patterns, in the order parseImages applies them
Strategies == <<"data-a-dynamic-image", "og:image", "ld+json", "srcset">> \o dataAttrs \o <<"img">>

\* Object.keys(imgObj).forEach(url => ...)
RECURSIVE ForEachDynamicKey(_, _, _)
ForEachDynamicKey(fields, i, images) ==
    IF i > Len(fields) THEN images
    ELSE ForEachDynamicKey(fields, i + 1,
             IF includes(fields[i].k, "images") /\ ~includes(fields[i].k, "sprite")
             THEN SetAdd(images, cleanImageUrl(fields[i].k))
             ELSE images)

\* parts.forEach(part => ...), url being part.trim().split(/\s+/)[0]
RECURSIVE ForEachPart(_, _, _)
ForEachPart(parts, i, images) ==
    IF i > Len(parts) THEN images
    ELSE LET url == SplitFirst(parts[i], " ")
         IN  ForEachPart(parts, i + 1,
                 IF url # <<>> /\ startsWith(url, "http") /\ isProductImage(url)
                 THEN SetAdd(images, cleanImageUrl(url))
                 ELSE images)

\* a plausible slip: no catch around the block, and the exception takes the
\* collected images with it
AfterBlock_Uncaught(acc) == IF acc.threw THEN <<>> ELSE acc.images

\* try { ... } catch (e) { }: the Set keeps what was added before the throw
AfterBlock(acc) == acc.images

\* the body of the forEach of one strategy, for one match of its pattern
Visit(strategy, el, images) ==
    CASE strategy = "data-a-dynamic-image" ->
            IF el.json.t = "object" THEN ForEachDynamicKey(el.json.fields, 1, images) ELSE images
      [] strategy = "og:image" ->
            IF startsWith(el.urls[1], "http") THEN SetAdd(images, cleanImageUrl(el.urls[1])) ELSE images
      [] strategy = "ld+json" ->
            IF el.json.t = "invalid" THEN images
            ELSE AfterBlock(extractFromJsonLd(el.json, Collected(images)))
      [] strategy = "srcset" -> ForEachPart(el.urls, 1, images)
      [] strategy = "img" ->
            IF startsWith(el.urls[1], "http") /\ isProductImage(el.urls[1]) /\ StringLength(el.urls[1]) > 60
            THEN SetAdd(images, cleanImageUrl(el.urls[1]))
            ELSE images
      [] OTHER ->
            IF startsWith(el.urls[1], "http") /\ isProductImage(el.urls[1])
            THEN SetAdd(images, cleanImageUrl(el.urls[1]))
            ELSE images

\* html.match(pattern).forEach(...): the matches of one pattern, in document order
RECURSIVE ForEachMatch(_, _, _, _)
ForEachMatch(page, strategy, i, images) ==
    IF i > Len(page) THEN images
    ELSE ForEachMatch(page, strategy, i + 1,
             IF page[i].tag = strategy THEN Visit(strategy, page[i], images) ELSE images)

RECURSIVE RunStrategies(_, _, _)
RunStrategies(page, s, images) ==
    IF s > Len(Strategies) THEN images
    ELSE RunStrategies(page, s + 1, ForEachMatch(page, Strategies[s], 1, images))

\* the filter of the final Array.from(images).filter(...)
KeptByFilter(url) ==
    /\ CanParseUrl(url)
    /\ startsWith(url, "http")
    /\ ~includes(url, "sprite")
    /\ ~includes(url, "data:")
    /\ ~includes(url, "pixel")
    /\ ~includes(url, "blank")

\* the most images parseImages returns
MaxImages == 20

parseImages(page) ==
    LET kept == SelectSeq(RunStrategies(page, 1, <<>>), KeptByFilter)
    IN  SubSeq(kept, 1, Min2(MaxImages, Len(kept)))

NoImagesMessage == <<"No product images found on this page">>

\* a plausible slip: the empty list is returned like any other
NoneFound_Never(images) == FALSE

\* if (images.length === 0)
NoneFound(images) == Len(images) = 0

IdleExtract == [images |-> <<>>, error |-> <<>>]

\* the rest of extractImages once fetchPage has returned the page: it parses
\* it and returns the images, or throws when there are none
ParseAndReturn(page) ==
    LET images == parseImages(page)
    IN  /\ IF NoneFound(images)
           THEN /\ eiPc' = "thrown"
                /\ eiResult' = [images |-> <<>>, error |-> NoImagesMessage]
           ELSE /\ eiPc' = "returned"
                /\ eiResult' = [images |-> images, error |-> <<>>]
        /\ eiHistory' = Append(eiHistory, eiResult')

\* extractImages resumes with the page fetchPage returned
ParseFetched ==
    /\ eiPc = "fetched"
    /\ ParseAndReturn(pageHtml)
    /\ UNCHANGED <<pageHtml, productUrl, heuristic>>
    /\ UNCHANGED <<fetchVars, colorVars, samplerVars, proxyVars>>

\* runs of parseImages on one page, at most
MaxRuns == 2

\* extractImages is called again for the same page URL and fetchPage returns
\* the same page: parseImages runs on identical markup once more
ParseAgain ==
    /\ eiPc \in {"returned", "thrown"}
    /\ Len(eiHistory) < MaxRuns
    /\ ParseAndReturn(pageHtml)
    /\ UNCHANGED <<pageHtml, productUrl, heuristic>>
    /\ UNCHANGED <<fetchVars, colorVars, samplerVars, proxyVars>>

InvalidUrlMessage == <<"Invalid URL">>

\* a plausible slip: the validation accepts everything
isValidUrl_Anything(string) == TRUE

\* new URL(string) returns rather than throws
isValidUrl(string) == CanParseUrl(string)

\* extractImages is called: an invalid URL throws at once, otherwise fetchPage
\* is entered and runs to its first await
ExtractImagesStart(url) ==
    /\ eiPc = "idle"
    /\ productUrl' = url
    /\ IF ~isValidUrl(url)
         THEN /\ eiPc' = "thrown"
              /\ eiResult' = [images |-> <<>>, error |-> InvalidUrlMessage]
              /\ UNCHANGED fetchVars
         ELSE /\ eiPc' = "fetching"
              /\ FetchPageBegin
              /\ UNCHANGED eiResult
    /\ UNCHANGED <<pageHtml, eiHistory, heuristic>>
    /\ UNCHANGED <<colorVars, samplerVars, proxyVars>>

\* fetchPage has returned html holding the page: extractImages resumes
ExtractResumed(page) ==
    /\ eiPc = "fetching"
    /\ fpPc = "returned"
    /\ pageHtml' = page
    /\ ParseAndReturn(page)
    /\ UNCHANGED <<productUrl, heuristic>>
    /\ UNCHANGED <<fetchVars, colorVars, samplerVars, proxyVars>>

\* fetchPage has thrown: the catch of extractImages throws the error on
ExtractRethrown ==
    /\ eiPc = "fetching"
    /\ fpPc = "thrown"
    /\ eiPc' = "thrown"
    /\ eiResult' = [images |-> <<>>, error |-> fpResult.message]
    /\ UNCHANGED <<pageHtml, eiHistory, productUrl, heuristic>>
    /\ UNCHANGED <<fetchVars, colorVars, samplerVars, proxyVars>>

\* ---- the pages drawn
PageOrigin == <<"https://", "shop.example">>     \* new URL(baseUrl).origin

\* the URLs written in the drawn pages
SampleUrl ==
    LET longName == "gallery-view-of-the-product-photographed-from-the-front-0001"
    IN  [ plain |-> <<"https://", "shop.example", "/img/", "a", ".jpg">>,
          protocolRelative |-> <<"//", "cdn.example", "/img/", "a", ".jpg">>,
          rootRelative |-> <<"/img/", "a", ".jpg">>,
          logo |-> <<"https://", "shop.example", "/img/", "logo", ".png">>,
          icon |-> <<"https://", "shop.example", "/img/", "icon", ".png">>,
          pixel |-> <<"https://", "shop.example", "/img/", "pixel", ".gif">>,
          noExtension |-> <<"https://", "shop.example", "/img/", "b">>,
          amazon |-> <<"https://", "m.media-amazon.com", "/images/", "a", "._AC_SX466_", ".jpg">>,
          amazonSprite |-> <<"https://", "m.media-amazon.com", "/images/", "sprite", ".png">>,
          shopify |-> <<"https://", "cdn.shopify.com", "/s/files/", "a", "_200x200", ".jpg">>,
          thumb |-> <<"https://", "shop.example", "/img/", "thumb", "_SS40", ".jpg">>,
          long |-> <<"https://", "shop.example", "/img/", longName, ".jpg">>,
          longLogo |-> <<"https://", "shop.example", "/img/", longName, "Logo", ".png">>,
          otherScheme |-> <<"httpx://", "cdn.example", "/img/", "a", ".jpg">> ]

\* distinct images in the gallery of a drawn page: more than parseImages returns
GallerySize == 22

\* a JSON-LD image array naming the images 1.jpg, 2.jpg, ... and the first
\* one once more
Gallery ==
    JArray([k \in 1..(GallerySize + 1) |->
              JString(<<"https://", "shop.example", "/img/",
                        ToString(IF k > GallerySize THEN 1 ELSE k), ".jpg">>)])

\* the pieces of markup a drawn page is made of: og:image tags, img tags, data
\* attributes, srcset attributes, dynamic-image attributes, JSON-LD scripts
\* and plain text
PageElements ==
    LET u == SampleUrl
    IN  {Element("og:image", <<url>>, JUndefined) :
            url \in {u.plain, u.protocolRelative, u.rootRelative, u.logo, u.icon, u.pixel,
                     u.noExtension, u.amazon, u.otherScheme}}
        \cup {Element("img", <<url>>, JUndefined) : url \in {u.long, u.longLogo, u.plain}}
        \cup {Element("data-src", <<url>>, JUndefined) : url \in {u.plain, u.logo, u.shopify}}
        \cup {Element("data-old-hires", <<u.thumb>>, JUndefined)}
        \cup { Element("srcset", <<u.plain \o <<" ", "2x">>, u.amazon>>, JUndefined),
               Element("srcset", <<u.icon>>, JUndefined) }
        \cup { Element("data-a-dynamic-image", <<>>,
                       JObject(<<Member(u.amazon, JNumber), Member(u.amazonSprite, JNumber)>>)),
               Element("data-a-dynamic-image", <<>>, JInvalid) }
        \cup {Element("ld+json", <<>>, json) : json \in
               { JObject(<<Member(<<"image">>, JString(u.plain))>>),
                 JObject(<<Member(<<"image">>,
                             JArray(<<JString(u.logo),
                                      JObject(<<Member(<<"url">>, JString(u.shopify))>>)>>))>>),
                 JObject(<<Member(<<"image">>, JObject(<<Member(<<"url">>, JNumber)>>)),
                           Member(<<"photo">>, JString(u.plain))>>),
                 JArray(<<JObject(<<Member(<<"offers">>,
                                      JObject(<<Member(<<"thumbnail">>, JString(u.rootRelative)),
                                                Member(<<"photos">>, JString(u.amazon))>>))>>)>>),
                 JObject(<<Member(<<"image">>, JString(u.plain)),
                           Member(<<"photo">>, JObject(<<Member(<<"url">>, JNumber)>>))>>),
                 JObject(<<Member(<<"image">>, Gallery)>>),
                 JInvalid }}
        \cup {Element("text", <<>>, JUndefined)}

\* pieces of markup in a drawn page, at most
MaxElements == 2

Pages == UNION {[1..n -> PageElements] : n \in 0..MaxElements}

(***************************************************************************)
(* The CORS proxy (cors-proxy/index.js): one request through the handler   *)
(*                                                                         *)
(* Host names are sequences of one-character strings, so that includes() is *)
(* the substring search it is.                                             *)
(***************************************************************************)

ALLOWED_ORIGINS ==
    <<"http://localhost:3000", "http://localhost:5000", "http://127.0.0.1:3000", "http://127.0.0.1:5000">>

BLOCKED_DOMAINS ==
    << <<"l", "o", "c", "a", "l", "h", "o", "s", "t">>,
       <<"1", "2", "7", ".", "0", ".", "0", ".", "1">>,
       <<"0", ".", "0", ".", "0", ".", "0">>,
       <<"1", "9", "2", ".", "1", "6", "8", ".">>,
       <<"1", "0", ".">>,
       <<"1", "7", "2", ".", "1", "6", ".">> >>

\* hostname.includes(blocked)
HostIncludes(hostname, blocked) ==
    \E i \in 1..(Len(hostname) - Len(blocked) + 1) :
        SubSeq(hostname, i, i + Len(blocked) - 1) = blocked

\* toLowerCase, on one character of a host name
LowerChar(c) ==
    CASE c = "L" -> "l" [] c = "O" -> "o" [] c = "C" -> "c" [] c = "A" -> "a"
      [] c = "H" -> "h" [] c = "S" -> "s" [] c = "T" -> "t" [] OTHER -> c

HostToLowerCase(hostname) == [k \in 1..Len(hostname) |-> LowerChar(hostname[k])]

\* the decimal digits of a number below 1000
DecimalChars(n) ==
    IF n < 10 THEN <<HexDigits[n + 1]>>
    ELSE IF n < 100 THEN <<HexDigits[(n \div 10) + 1], HexDigits[(n % 10) + 1]>>
    ELSE <<HexDigits[(n \div 100) + 1], HexDigits[((n \div 10) % 10) + 1], HexDigits[(n % 10) + 1]>>

\* the text of an IPv4 address
DottedQuad(octets) ==
    DecimalChars(octets[1]) \o <<".">> \o DecimalChars(octets[2]) \o <<".">>
      \o DecimalChars(octets[3]) \o <<".">> \o DecimalChars(octets[4])

\* req.query.url: absent, a string new URL() rejects, or a URL, given by its
\* protocol and its host (a name as written, or an IPv4 address)
NoTarget == [kind |-> "absent", protocol |-> "", name |-> <<>>, octets |-> <<>>]
BadTarget == [kind |-> "invalid", protocol |-> "", name |-> <<>>, octets |-> <<>>]
NamedTarget(protocol, name) == [kind |-> "url", protocol |-> protocol, name |-> name, octets |-> <<>>]
AddressTarget(protocol, octets) == [kind |-> "url", protocol |-> protocol, name |-> <<>>, octets |-> octets]

\* parsedUrl.hostname: the URL parser lowercases a host name
Hostname(target) ==
    IF target.octets # <<>> THEN DottedQuad(target.octets) ELSE HostToLowerCase(target.name)

\* a plausible slip: nothing is blocked
IsBlocked_Never(hostname) == FALSE

\* BLOCKED_DOMAINS.some(blocked => hostname.includes(blocked))
IsBlocked(hostname) ==
    \E k \in 1..Len(BLOCKED_DOMAINS) : HostIncludes(hostname, BLOCKED_DOMAINS[k])

\* ALLOWED_ORIGINS.some(allowed => origin.startsWith(allowed)); an origin is
\* its first part, one of the allowed strings or not, and what follows it
OriginAllowed(origin) ==
    origin # <<>> /\ \E k \in 1..Len(ALLOWED_ORIGINS) : origin[1] = ALLOWED_ORIGINS[k]

\* Access-Control-Allow-Origin
AllowOriginHeader(origin) == IF OriginAllowed(origin) THEN origin ELSE <<ALLOWED_ORIGINS[1]>>

NoResponse == [status |-> 0, error |-> "", allowOrigin |-> <<>>]
Response(status, error) == [status |-> status, error |-> error, allowOrigin |-> AllowOriginHeader(cpReq'.origin)]

\* the handler from the request to its first await, or to the response when
\* it answers without fetching
HandleRequest(req) ==
    /\ cpPc = "idle"
    /\ cpReq' = req
    /\ LET hostname == HostToLowerCase(Hostname(req.target))
       IN  IF req.method = "OPTIONS"
             THEN cpPc' = "done" /\ cpRes' = Response(204, "") /\ UNCHANGED <<cpUpstream, cpTimer>>
           ELSE IF req.method # "GET"
             THEN cpPc' = "done" /\ cpRes' = Response(405, "Method not allowed")
                  /\ UNCHANGED <<cpUpstream, cpTimer>>
           ELSE IF req.target.kind = "absent"
             THEN cpPc' = "done" /\ cpRes' = Response(400, "Missing url parameter")
                  /\ UNCHANGED <<cpUpstream, cpTimer>>
           ELSE IF req.target.kind = "invalid"
             THEN cpPc' = "done" /\ cpRes' = Response(400, "Invalid URL format")
                  /\ UNCHANGED <<cpUpstream, cpTimer>>
           ELSE IF IsBlocked(hostname)
             THEN cpPc' = "done" /\ cpRes' = Response(403, "Internal URLs not allowed")
                  /\ UNCHANGED <<cpUpstream, cpTimer>>
           ELSE IF req.target.protocol \notin {"http:", "https:"}
             THEN cpPc' = "done" /\ cpRes' = Response(400, "Only HTTP/HTTPS URLs allowed")
                  /\ UNCHANGED <<cpUpstream, cpTimer>>
           ELSE /\ cpPc' = "fetch"
                /\ cpRes' = [NoResponse EXCEPT !.allowOrigin = AllowOriginHeader(req.origin)]
                /\ cpUpstream' = Append(cpUpstream, req.target)
                /\ cpTimer' = TRUE
    /\ UNCHANGED <<fetchVars, colorVars, samplerVars, scraperVars>>

\* the upstream fetch resolves: clearTimeout, then the body is read as text
\* (text, html, json content types) or as a buffer
UpstreamResolved(textual) ==
    /\ cpPc = "fetch"
    /\ cpPc' = IF textual THEN "text" ELSE "buffer"
    /\ cpTimer' = FALSE
    /\ UNCHANGED <<cpReq, cpRes, cpUpstream>>
    /\ UNCHANGED <<fetchVars, colorVars, samplerVars, scraperVars>>

\* the upstream fetch rejects, or reading the body does: the catch answers 500
UpstreamRejected ==
    /\ cpPc \in {"fetch", "text", "buffer"}
    /\ cpPc' = "done"
    /\ cpRes' = [cpRes EXCEPT !.status = 500, !.error = "Failed to fetch URL"]
    /\ UNCHANGED <<cpReq, cpUpstream, cpTimer>>
    /\ UNCHANGED <<fetchVars, colorVars, samplerVars, scraperVars>>

\* the 30 s timer fires: abort() rejects the fetch still pending with an
\* AbortError, answered 504; after the answer it aborts nothing
ProxyTimeoutFired ==
    /\ cpTimer
    /\ cpTimer' = FALSE
    /\ IF cpPc = "fetch"
         THEN /\ cpPc' = "done"
              /\ cpRes' = [cpRes EXCEPT !.status = 504, !.error = "Request timeout"]
         ELSE UNCHANGED <<cpPc, cpRes>>
    /\ UNCHANGED <<cpReq, cpUpstream>>
    /\ UNCHANGED <<fetchVars, colorVars, samplerVars, scraperVars>>

\* response.text() or response.arrayBuffer() resolves: the content is sent
BodyRead ==
    /\ cpPc \in {"text", "buffer"}
    /\ cpPc' = "done"
    /\ cpRes' = [cpRes EXCEPT !.status = 200]
    /\ UNCHANGED <<cpReq, cpUpstream, cpTimer>>
    /\ UNCHANGED <<fetchVars, colorVars, samplerVars, scraperVars>>

\* the requests drawn
ProxyTargets ==
    { NoTarget, BadTarget,
      NamedTarget("http:", <<"l", "o", "c", "a", "l", "h", "o", "s", "t">>),
      NamedTarget("https:", <<"L", "O", "C", "A", "L", "H", "O", "S", "T">>),
      NamedTarget("https:", <<"s", "h", "o", "p", ".", "e", "x", "a", "m", "p", "l", "e">>),
      NamedTarget("ftp:", <<"s", "h", "o", "p", ".", "e", "x", "a", "m", "p", "l", "e">>) }
      \cup {AddressTarget("http:", octets) : octets \in
              { <<127, 0, 0, 1>>, <<0, 0, 0, 0>>, <<10, 1, 2, 3>>, <<192, 168, 1, 1>>,
                <<172, 16, 0, 1>>, <<172, 20, 0, 5>>, <<172, 31, 255, 255>>, <<172, 32, 0, 1>>,
                <<93, 184, 216, 34>> }}

ProxyOrigins ==
    {<<>>, <<"http://localhost:3000">>, <<"http://localhost:3000", ".evil.example">>, <<"https://evil.example">>}

ProxyRequests ==
    [method : {"GET", "OPTIONS", "POST"}, origin : ProxyOrigins, target : ProxyTargets]

InitProxy ==
    /\ cpPc = "idle"
    /\ cpReq = [method |-> "GET", origin |-> <<>>, target |-> NoTarget]
    /\ cpRes = NoResponse
    /\ cpUpstream = <<>>
    /\ cpTimer = FALSE

NextProxy ==
    \/ \E req \in ProxyRequests : HandleRequest(req)
    \/ \E textual \in BOOLEAN : UpstreamResolved(textual)
    \/ UpstreamRejected
    \/ ProxyTimeoutFired
    \/ BodyRead

(***************************************************************************)
(* Initial states and specifications                                       *)
(***************************************************************************)

InitColor ==
    /\ brandColors = <<>>
    /\ published = {}
    /\ ex = [c \in Calls |-> IdleCall]
    /\ val = IdleVal
    /\ fc = IdleClosest

InitSampler ==
    /\ pixelData = <<>>
    /\ sampled = <<>>
    /\ samplerPc = "in"

\* pixels a drawn buffer is made of: opaque, alpha exactly 128, transparent,
\* alpha just below the threshold
PixelKinds == {<<255, 0, 8, 255>>, <<16, 200, 100, 128>>, <<0, 0, 0, 0>>, <<250, 250, 250, 127>>}

\* pixels in a drawn buffer, at most
MaxPixels == 5

PixelBuffers == {Flatten(ps) : ps \in UNION {[1..n -> PixelKinds] : n \in 0..MaxPixels}}

\* the colours a drawn allColors is made of: black and a dark colour next to
\* it, white and a light colour next to it, red and two colours around it
ColorUniverse ==
    { rgbToHex(0, 0, 0), rgbToHex(32, 32, 0), rgbToHex(255, 255, 255), rgbToHex(255, 224, 224),
      rgbToHex(255, 0, 0), rgbToHex(224, 32, 32) }

\* colours in a drawn allColors, at most (the rich list aside)
MaxColors == 3

RichColors == [k \in 1..Len(RichPixels) |->
                 rgbToHex(RichPixels[k][1], RichPixels[k][2], RichPixels[k][3])]

\* what the assets before the last one can have pushed to allColors
ClusterInputs ==
    UNION {[1..n -> ColorUniverse] : n \in 0..MaxColors}
      \cup {<<c>> \o RichColors : c \in ColorUniverse}

InitFetch ==
    /\ fpPc = "idle"
    /\ fpIdx = 0
    /\ lastError = NoError
    /\ fpResult = NoResult
    /\ timers = {}
    /\ attempts = <<>>
    /\ contacted = <<>>

NextFetch ==
    \/ FetchPageStart
    \/ \E status \in Statuses : FetchResolved(status)
    \/ FetchRejected
    \/ \E k \in 1..Len(proxies) : TimeoutFired(k)
    \/ \E data \in JsonBodies(fpIdx) : JsonResolved(data)
    \/ \E text \in TextBodies(fpIdx) : TextResolved(text)
    \/ BodyRejected

NextPalette ==
    \/ \E c \in Calls, n \in 0..MaxAssets : ExtractPaletteStart(c, n)
    \/ \E c \in Calls, img \in AssetImages : ImageResolved(c, img)
    \/ ValidateStart
    \/ \E img \in AssetImages : ValidateResolved(img)

\* the last asset of a batch resolves, whatever the assets before it pushed
InitCluster ==
    /\ brandColors = <<>>
    /\ published = {}
    /\ \E colors \in ClusterInputs :
          ex = [c \in Calls |-> [pc |-> "await", remaining |-> 1, allColors |-> colors, ret |-> <<>>,
                                 size |-> 1, assets |-> <<>>]]
    /\ val = IdleVal
    /\ fc = IdleClosest

NextCluster == \E img \in AssetImages : ImageResolved(1, img)

\* validateColors resumes against a palette some batch left behind
InitValidate ==
    /\ brandColors \in {clusterColors(colors) : colors \in ClusterInputs}
    /\ published = {brandColors}
    /\ ex = [c \in Calls |-> IdleCall]
    /\ val = [IdleVal EXCEPT !.pc = "await"]
    /\ fc = IdleClosest

\* the strings findClosestStyleColor is called with: colours, one in upper
\* case, one without "#", a three-digit colour, the empty string
ClosestInputs ==
    { rgbToHex(250, 10, 10), rgbToHex(128, 128, 128), rgbToHex(0, 0, 0),
      <<"#", "F", "F", "E", "0", "E", "0">>, <<"f", "f", "0", "0", "0", "0">>,
      <<"#", "f", "f", "f">>, <<>> }

\* findClosestStyleColor against a palette some batch left behind
InitPaletteLeft ==
    /\ brandColors \in {clusterColors(colors) : colors \in ClusterInputs}
    /\ published = {brandColors}
    /\ ex = [c \in Calls |-> IdleCall]
    /\ val = IdleVal
    /\ fc = IdleClosest

NextClosest == \E hex \in ClosestInputs : FindClosest(hex)

NextValidate ==
    \/ ValidateStart
    \/ \E img \in AssetImages : ValidateResolved(img)

InitDrawnBuffer ==
    /\ pixelData \in PixelBuffers
    /\ sampled = <<>>
    /\ samplerPc = "in"

InitScraper ==
    /\ pageHtml = <<>>
    /\ eiPc = "idle"
    /\ eiResult = IdleExtract
    /\ eiHistory = <<>>
    /\ productUrl = <<"https://", "shop.example", "/p">>
    /\ heuristic = IdleHeuristic

InitFetched ==
    /\ pageHtml \in Pages
    /\ eiPc = "fetched"
    /\ eiResult = IdleExtract
    /\ eiHistory = <<>>
    /\ productUrl = <<"https://", "shop.example", "/p">>
    /\ heuristic = IdleHeuristic

vars == <<fetchVars, colorVars, samplerVars, scraperVars, proxyVars>>

\* fetchPage
InitFetchPage == InitFetch /\ InitColor /\ InitSampler /\ InitScraper /\ InitProxy

SpecFetch == InitFetchPage /\ [][NextFetch]_vars

\* fetchPage with the scheduling the runtime guarantees: the call is made and
\* an armed timer fires when its 15 seconds are over; nothing obliges a relay to
\* answer, to fail, or to finish a body it has begun
FetchFairness ==
    /\ WF_vars(FetchPageStart)
    /\ \A k \in 1..Len(proxies) : WF_vars(TimeoutFired(k))

SpecFetchLive == InitFetchPage /\ [][NextFetch]_vars /\ FetchFairness

\* extractPalette and validateColors over the asset images
InitPalette == InitFetch /\ InitColor /\ InitSampler /\ InitScraper /\ InitProxy

SpecPalette == InitPalette /\ [][NextPalette]_vars

\* the clustering step of extractPalette over drawn colour lists
InitLastAsset == InitFetch /\ InitCluster /\ InitSampler /\ InitScraper /\ InitProxy

SpecCluster == InitLastAsset /\ [][NextCluster]_vars

\* analyzePixels over drawn buffers
\* validateColors over the palettes of drawn colour lists
InitAwaitingImage == InitFetch /\ InitValidate /\ InitSampler /\ InitScraper /\ InitProxy

SpecValidate == InitAwaitingImage /\ [][NextValidate]_vars

\* findClosestStyleColor over the palettes of drawn colour lists
InitClosest == InitFetch /\ InitPaletteLeft /\ InitSampler /\ InitScraper /\ InitProxy

SpecClosest == InitClosest /\ [][NextClosest]_vars

\* the images of the interleaving: two that decode to different colours, and
\* one that does not decode
ReplaceImages ==
    { DecodedImage(Spread(<<Opaque(255, 0, 0), Opaque(250, 5, 3), Opaque(0, 0, 0)>>)),
      DecodedImage(Spread(<<Opaque(224, 32, 32), Opaque(0, 0, 255)>>)),
      BrokenImage }

\* extractPalette calls, suspended at each asset, interleaved with
\* validateColors and findClosestStyleColor
NextReplace ==
    \/ \E c \in Calls, n \in 0..MaxAssets : ExtractPaletteStart(c, n)
    \/ \E c \in Calls, img \in ReplaceImages : ImageResolved(c, img)
    \/ ValidateStart
    \/ \E img \in ReplaceImages : ValidateResolved(img)
    \/ FindClosest(rgbToHex(250, 10, 10))

InitReplace == InitFetch /\ InitColor /\ InitSampler /\ InitScraper /\ InitProxy

SpecReplace == InitReplace /\ [][NextReplace]_vars

\* the images of a batch: the three above and the sliver
BatchImages == ReplaceImages \cup {SliverImage}

\* one extractPalette call after another, each asset settling or not
NextBatch ==
    \/ \E c \in Calls, n \in 0..MaxAssets : ExtractPaletteStart(c, n)
    \/ \E c \in Calls, img \in BatchImages : ImageResolved(c, img)
    \/ \E c \in Calls, img \in BatchImages : ImageLoadThrew(c, img)

InitBatch == InitFetch /\ InitColor /\ InitSampler /\ InitScraper /\ InitProxy

SpecBatch == InitBatch /\ [][NextBatch]_vars

\* two activations of extractPalette: analyzeAssets does not wait for the one
\* before
OverlapCalls == {1, 2}

InitTwoCalls ==
    /\ brandColors = <<>>
    /\ published = {}
    /\ ex = [c \in OverlapCalls |-> IdleCall]
    /\ val = IdleVal
    /\ fc = IdleClosest

\* analyzeAssets calls extractPalette on an upload
StartEarlier(n) ==
    /\ ex[1].pc = "idle"
    /\ ex[2].pc = "idle"
    /\ ExtractPaletteStart(1, n)

\* analyzeAssets calls extractPalette again, on the next upload or removal,
\* while the earlier call is suspended on an image
StartLater(n) ==
    /\ ex[1].pc = "await"
    /\ ex[2].pc = "idle"
    /\ ExtractPaletteStart(2, n)

NextOverlap ==
    \/ \E n \in 1..MaxAssets : StartEarlier(n)
    \/ \E n \in 1..MaxAssets : StartLater(n)
    \/ \E c \in OverlapCalls, img \in ReplaceImages : ImageResolved(c, img)

InitOverlap == InitFetch /\ InitTwoCalls /\ InitSampler /\ InitScraper /\ InitProxy

SpecOverlap == InitOverlap /\ [][NextOverlap]_vars

\* the CORS proxy over drawn requests
InitHandler == InitFetch /\ InitColor /\ InitSampler /\ InitScraper /\ InitProxy

SpecProxy == InitHandler /\ [][NextProxy]_vars

NextSampler == AnalyzePixels

InitSampling == InitFetch /\ InitColor /\ InitDrawnBuffer /\ InitScraper /\ InitProxy

SpecSampler == InitSampling /\ [][NextSampler]_vars

\* the strings extractImages is called with: two URLs, and strings new URL()
\* rejects: empty, without a scheme, relative, protocol-relative, without a host
ProductUrls ==
    { <<"https://", "shop.example", "/p">>, <<"httpx://", "shop.example", "/p">>,
      <<>>, <<"shop.example", "/p">>, <<"/p">>, <<"//", "shop.example", "/p">>, <<"https://">> }

\* the pages fetchPage can have returned
FetchedPages == {page \in Pages : Len(page) <= 1}

\* extractImages from the call on
NextExtract ==
    \/ \E url \in ProductUrls : ExtractImagesStart(url)
    \/ \E status \in Statuses : FetchResolved(status)
    \/ FetchRejected
    \/ \E k \in 1..Len(proxies) : TimeoutFired(k)
    \/ \E data \in JsonBodies(fpIdx) : JsonResolved(data)
    \/ \E text \in TextBodies(fpIdx) : TextResolved(text)
    \/ BodyRejected
    \/ \E page \in FetchedPages : ExtractResumed(page)
    \/ ExtractRethrown

InitExtract == InitFetch /\ InitColor /\ InitSampler /\ InitScraper /\ InitProxy

SpecExtract == InitExtract /\ [][NextExtract]_vars

\* parseImages over drawn pages
NextParse == ParseFetched \/ ParseAgain

InitPageFetched == InitFetch /\ InitColor /\ InitSampler /\ InitFetched /\ InitProxy

SpecParse == InitPageFetched /\ [][NextParse]_vars

\* the URLs isProductImage is called with: a file name, with or without a
\* denylist word or a thumbnail token, and what follows the name
HeuristicUrls ==
    LET names == {"a", "thumb", "logo", "Logo", "icon", "sprite", "nav-", "button", "badge",
                  "banner", "arrow", "checkbox", "transparent-pixel"}
        sizes == {<<>>, <<"_SS40">>, <<"_SS50">>}
        tails == {<<".jpg">>, <<".JPG">>, <<".png">>, <<".webp">>, <<>>, <<".html">>,
                  <<".jpg", ".html">>, <<".jpg", "?v=1">>, <<"?f=", "b", ".png">>}
    IN  {<<"https://", "shop.example", "/img/", name>> \o size \o tail :
            name \in names, size \in sizes, tail \in tails}

NextHeuristic == \E url \in HeuristicUrls : CheckProductImage(url)

InitHeuristic == InitFetch /\ InitColor /\ InitSampler /\ InitScraper /\ InitProxy

SpecHeuristic == InitHeuristic /\ [][NextHeuristic]_vars

(***************************************************************************)
(* Claims about fetchPage                                                  *)
(***************************************************************************)

\* the attempt against descriptor k ended with a string body of at least n
\* characters delivered
DeliveredString(k, n) ==
    /\ k <= Len(attempts)
    /\ attempts[k].event = "body"
    /\ attempts[k].html.t = "string"
    /\ attempts[k].html.len >= n

ReturnedFrom(k) ==
    /\ fpPc = "returned"
    /\ Len(attempts) = k
    /\ fpResult = [kind |-> "html", html |-> attempts[k].html, message |-> <<>>]
    /\ fpResult.html.id = k

\* C1 (as stated): when the first descriptor times out and the second delivers
\* content of at least 100 characters, fetchPage returns the second
\* descriptor's content.
C1_AsStated ==
    (Len(attempts) >= 2 /\ attempts[1].event = "timeout" /\ DeliveredString(2, MinHtmlLength))
        => ReturnedFrom(2)

\* C1 (amended): when the first descriptor times out and the second delivers
\* content of more than 100 characters, fetchPage returns the second
\* descriptor's content and contacts no further descriptor.
C1_FallbackReturnsSecond ==
    (Len(attempts) >= 2 /\ attempts[1].event = "timeout" /\ DeliveredString(2, MinHtmlLength + 1))
        => ReturnedFrom(2)

C1_Witness ==
    /\ Len(attempts) = 2
    /\ attempts[1].event = "timeout"
    /\ DeliveredString(2, MinHtmlLength + 1)
    /\ fpPc = "returned"

\* C2: when every descriptor fails, fetchPage throws one error, whose message
\* is the aggregate prefix followed by the message of the last descriptor's
\* error; a value returned as success is never empty or undefined, and an
\* error that leaves fetchPage is always the aggregate one, raised only after
\* the last descriptor failed.
AttemptFailedAt(k) == ~DeliveredString(k, MinHtmlLength + 1)

C2_AggregatedFailure ==
    /\ (Len(attempts) = Len(proxies) /\ \A k \in 1..Len(proxies) : AttemptFailedAt(k))
          => /\ fpPc = "thrown"
             /\ fpResult.kind = "error"
             /\ fpResult.message =
                   <<"All proxies failed. Last error: ">> \o attempts[Len(proxies)].message
             /\ attempts[Len(proxies)].message # <<>>
    /\ fpPc = "returned" => (fpResult.kind = "html" /\ Truthy(fpResult.html))
    /\ fpResult.kind = "error"
          => /\ fpPc = "thrown"
             /\ Len(attempts) = Len(proxies)
             /\ \A k \in 1..Len(proxies) : AttemptFailedAt(k)
             /\ fpResult.message[1] = "All proxies failed. Last error: "

C2_Witness ==
    /\ fpPc = "thrown"
    /\ attempts[1].event = "timeout"
    /\ attempts[2].event = "http"
    /\ attempts[3].event = "body"

\* C3: a value fetchPage returns has length greater than 100; a descriptor
\* whose body is shorter or missing has failed: its body is not what is
\* returned, and the chain has moved on to the next descriptor (or, after the
\* last one, has thrown).
ShortOrMissing(k) == attempts[k].event = "body" /\ ~DeliveredString(k, MinHtmlLength + 1)

C3_SanityLength ==
    /\ fpPc = "returned"
          => (fpResult.html.t = "string" /\ fpResult.html.len > MinHtmlLength)
    /\ \A k \in 1..Len(attempts) :
          ShortOrMissing(k)
            => /\ fpPc # "returned" \/ Len(attempts) > k
               /\ attempts[k].message = <<"Empty response">>
               /\ IF k < Len(proxies) THEN fpIdx > k ELSE fpPc = "thrown"

C3_Witness ==
    /\ fpPc = "returned"
    /\ Len(attempts) = 3
    /\ ShortOrMissing(1)
    /\ attempts[1].html.len = MinHtmlLength
    /\ ShortOrMissing(2)
    /\ attempts[2].html.t = "undefined"

(***************************************************************************)
(* Claims about ColorPrecision                                             *)
(***************************************************************************)

Range(seq) == {seq[k] : k \in 1..Len(seq)}
CountIn(seq, x) == Cardinality({k \in 1..Len(seq) : seq[k] = x})
ChannelSum(hex) == hexToRgb(hex).r + hexToRgb(hex).g + hexToRgb(hex).b
Near(h1, h2, t) == SumOfSquares(hexToRgb(h1), hexToRgb(h2)) < t * t

\* C4: the palette clusterColors returns, and so the stored reference palette,
\* never has more than 8 entries.
C4_PaletteAtMostEight ==
    /\ Len(brandColors) <= 8
    /\ \A c \in Calls : Len(ex[c].ret) <= 8

C4_Witness ==
    /\ ex[1].pc = "done"
    /\ Cardinality(Range(ex[1].allColors)) > 8
    /\ Len(ex[1].ret) = 8
    /\ brandColors = ex[1].ret

\* C5: any two distinct entries of the palette clusterColors returns, and so of
\* the stored reference palette, are at Euclidean RGB distance 50 or more.
PairwiseApart(palette) ==
    \A i, j \in 1..Len(palette) : i # j => ~Near(palette[i], palette[j], 50)

C5_PaletteEntriesApart ==
    /\ PairwiseApart(brandColors)
    /\ \A c \in Calls : PairwiseApart(ex[c].ret)

C5_Witness ==
    /\ ex[1].pc = "done"
    /\ Len(brandColors) >= 2
    /\ \E x \in Range(ex[1].allColors), y \in Range(brandColors) :
          /\ x # y
          /\ Near(x, y, 50)
          /\ ChannelSum(x) > 60 /\ ChannelSum(x) < 705
          /\ x \notin Range(brandColors)

\* C6: no colour whose mean channel value is <= 20 or >= 235 is in the palette,
\* even when it is the most frequent input colour; and such a colour excludes
\* nothing: every input colour of admissible brightness is in the palette or
\* within distance 50 of a palette entry, unless the palette is full.
Admissible(hex) == ChannelSum(hex) > 3 * 20 /\ ChannelSum(hex) < 3 * 235

C6_ExtremeBrightnessExcluded ==
    /\ \A x \in Range(brandColors) : Admissible(x)
    /\ \A c \in Calls :
          /\ \A x \in Range(ex[c].ret) : Admissible(x)
          /\ ex[c].pc = "done" =>
                \A x \in Range(ex[c].allColors) :
                    Admissible(x) =>
                        \/ x \in Range(ex[c].ret)
                        \/ \E y \in Range(ex[c].ret) : Near(x, y, 50)
                        \/ Len(ex[c].ret) = 8

C6_Witness ==
    /\ ex[1].pc = "done"
    /\ \E d \in Range(ex[1].allColors) :
          /\ ~Admissible(d)
          /\ \A x \in Range(ex[1].allColors) \ {d} :
                CountIn(ex[1].allColors, d) > CountIn(ex[1].allColors, x)
          /\ \E y \in Range(brandColors) : Near(d, y, 50)

\* C7: validateColors returns score 0 and no matches when the reference palette
\* or the image's colours are empty; otherwise score = 100 * (number of
\* reference colours with an image colour within distance 60) / (number of
\* reference colours), with exactly one matches entry per matched reference
\* colour, so 0 <= score <= 100, and score = 100 when every reference colour
\* occurs among the image's colours.
MatchedRefs(brand, image) ==
    {k \in 1..Len(brand) : \E j \in 1..Len(image) : Near(brand[k], image[j], 60)}

C7_ScoreIsMatchedShare ==
    val.pc = "done" =>
        LET brand == val.seen.brand
            image == val.seen.image
            score == val.ret.score
            matches == val.ret.matches
            matched == MatchedRefs(brand, image)
        IN  IF brand = <<>> \/ image = <<>>
              THEN score.num = 0 /\ matches = <<>>
              ELSE /\ score.den > 0
                   /\ score.num * Len(brand) = 100 * Cardinality(matched) * score.den
                   /\ 0 <= score.num /\ score.num <= 100 * score.den
                   /\ Len(matches) = Cardinality(matched)
                   /\ \A k \in 1..Len(brand) :
                         Cardinality({m \in 1..Len(matches) : matches[m].brand = brand[k]})
                            = IF k \in matched THEN 1 ELSE 0
                   /\ \A m \in 1..Len(matches) :
                         /\ matches[m].image \in Range(image)
                         /\ Near(matches[m].brand, matches[m].image, 60)
                   /\ Range(brand) \subseteq Range(image) => score.num = 100 * score.den

C7_Witness ==
    /\ val.pc = "done"
    /\ Len(val.seen.brand) >= 3
    /\ val.ret.score.num > 0
    /\ val.ret.score.num < 100 * val.ret.score.den
    /\ \E m \in 1..Len(val.ret.matches) : val.ret.matches[m].brand # val.ret.matches[m].image

\* C8 (as stated): for a buffer with at least one opaque pixel (alpha >= 128),
\* wherever it sits, analyzePixels returns a non-empty result, and every
\* colour it returns is a valid 6-hex-digit colour string.
IsHexColor(h) == Len(h) = 7 /\ h[1] = "#" /\ \A k \in 2..7 : h[k] \in HexChars
PixelCount == Len(pixelData) \div 4
AlphaOf(q) == pixelData[4 * q + 4]

C8_AsStated ==
    samplerPc = "out" =>
        /\ (\E q \in 0..(PixelCount - 1) : AlphaOf(q) >= 128) => sampled # <<>>
        /\ \A h \in Range(sampled) : IsHexColor(h)

\* C8 (amended): for a buffer with at least one opaque pixel (alpha >= 128) at
\* a sampled position (every 4th pixel, starting with the first),
\* analyzePixels returns a non-empty result, and every colour it returns is a
\* valid 6-hex-digit colour string.
C8_SampledOpaquePixelCounts ==
    samplerPc = "out" =>
        /\ (\E q \in 0..(PixelCount - 1) : q % 4 = 0 /\ AlphaOf(q) >= 128) => sampled # <<>>
        /\ \A h \in Range(sampled) : IsHexColor(h)

C8_Witness ==
    /\ samplerPc = "out"
    /\ PixelCount = 5
    /\ AlphaOf(0) < 128
    /\ AlphaOf(4) = 128
    /\ Len(sampled) = 1

(***************************************************************************)
(* Image discovery                                                         *)
(***************************************************************************)

\* the words that mark a non-product image: the list of isProductImage, read
\* without regard to case, and the tracking-pixel marker of the final filter
DeniedTokens ==
    {"logo", "icon", "sprite", "nav-", "button", "badge", "banner", "arrow", "checkbox",
     "_ss40", "_ss50", "transparent-pixel", "pixel"}

Denylisted(url) == \E k \in 1..Len(url) : LowerToken(url[k]) \in DeniedTokens

\* the page holds the og:image tag at i and, besides it, plain text only
SingleOgTagAt(i) ==
    /\ pageHtml[i].tag = "og:image"
    /\ \A j \in 1..Len(pageHtml) : j # i => pageHtml[j].tag = "text"

\* C9: for a page whose only image-bearing markup is one og:image tag (with a
\* URL free of denylist words), extractImages returns a one-element list
\* holding the tag's URL in normalized form: the URL itself when it is
\* absolute, made absolute against https or the page's origin when it is
\* protocol-relative or root-relative; the size-token clean-up of
\* cleanImageUrl is allowed on top.
C9_AsStated ==
    \A i \in 1..Len(pageHtml) :
        LET url == normalizeUrl(pageHtml[i].urls[1], PageOrigin)
        IN  (eiPc # "fetched" /\ SingleOgTagAt(i) /\ ~Denylisted(url)) =>
                /\ eiPc = "returned"
                /\ eiResult.images \in {<<url>>, <<cleanImageUrl(url)>>}

\* the URLs written in the attributes of the page
PageUrls ==
    UNION {{SplitFirst(pageHtml[i].urls[k], " ") : k \in 1..Len(pageHtml[i].urls)} :
             i \in 1..Len(pageHtml)}

\* the page carries no JSON
JsonFree == \A i \in 1..Len(pageHtml) : pageHtml[i].json.t = "undefined"

NamesLogoOrIcon(url) == \E k \in 1..Len(url) : LowerToken(url[k]) \in {"logo", "icon"}

\* C10: no URL extractImages returns contains a denylist word (logo, icon,
\* sprite, nav, button, badge, banner, arrow, checkbox, tiny-thumbnail tokens,
\* tracking-pixel markers), whichever strategy collected it; and a page whose
\* only image URLs contain logo or icon yields no candidates, so the
\* no-images error is thrown.
C10_AsStated ==
    /\ eiPc = "returned" => \A url \in Range(eiResult.images) : ~Denylisted(url)
    /\ (eiPc # "fetched" /\ JsonFree /\ PageUrls # {} /\ \A url \in PageUrls : NamesLogoOrIcon(url)) =>
           /\ eiPc = "thrown"
           /\ eiResult.error = NoImagesMessage

\* the URLs of the og:image tags and data attributes of the page that name a
\* product image: free of denylist words, with an image extension
WrittenProductUrls ==
    {pageHtml[i].urls[1] : i \in {j \in 1..Len(pageHtml) :
        /\ pageHtml[j].tag \in {"og:image"} \cup Range(dataAttrs)
        /\ ~Denylisted(pageHtml[j].urls[1])
        /\ ImageExtensionTest(pageHtml[j].urls[1])}}

\* C11: every collected URL is normalized and so appears in the result in
\* absolute form rather than being dropped: a root-relative /img/a.jpg is
\* resolved against the page origin, a protocol-relative //cdn.example/... gets
\* https:, an absolute URL stays as it is (up to the size-token clean-up).
\* Stated for the results the cap of 20 has not cut.
C11_AsStated ==
    /\ normalizeUrl(<<"/img/", "a", ".jpg">>, <<"https://", "shop.example">>)
         = <<"https://", "shop.example", "/img/", "a", ".jpg">>
    /\ normalizeUrl(<<"//", "cdn.example", "/img/", "a", ".jpg">>, <<"https://", "shop.example">>)
         = <<"https://", "cdn.example", "/img/", "a", ".jpg">>
    /\ (eiPc \in {"returned", "thrown"} /\ Len(eiResult.images) < MaxImages) =>
           \A url \in WrittenProductUrls :
               cleanImageUrl(normalizeUrl(url, PageOrigin)) \in Range(eiResult.images)

IsHttpUrl(url) ==
    /\ Len(url) >= 2
    /\ url[1] \in {"https://", "http://"}
    /\ url[2] \in Hosts
    /\ \A k \in 1..Len(url) : url[k] \notin {" ", "'", "\""}

\* C13: every URL extractImages returns is an absolute, syntactically valid
\* URL whose scheme is http or https, for every page and every strategy.
C13_AsStated ==
    eiPc = "returned" => \A url \in Range(eiResult.images) : IsHttpUrl(url)

\* C14: the list extractImages returns has at most 20 entries and no two of
\* them are equal strings (compared as returned: after the size-token
\* clean-up).
C14_CappedAndDistinct ==
    eiPc = "returned" =>
        /\ Len(eiResult.images) <= 20
        /\ \A i, j \in 1..Len(eiResult.images) :
               i # j => eiResult.images[i] # eiResult.images[j]

\* a page with the gallery of more than 20 images written twice: the cap cut
\* the list and every URL was collected once
C14_Witness ==
    /\ eiPc = "returned"
    /\ Len(pageHtml) = 2
    /\ pageHtml[1] = pageHtml[2]
    /\ pageHtml[1].json.t = "object"
    /\ Len(Property(pageHtml[1].json, <<"image">>).items) > 20
    /\ Len(eiResult.images) = 20

\* the string is a syntactically well-formed absolute URL: a scheme first, and
\* after http(s) a host
WellFormedAbsolute(string) ==
    /\ Len(string) >= 2
    /\ string[1] \in {"https://", "http://", "httpx://", "data:"}
    /\ string[1] \in {"https://", "http://"} => string[2] \in Hosts

\* C15: extractImages called with a string that is not a well-formed absolute
\* URL throws the invalid-URL error before any network request: fetchPage is
\* never entered, no proxy is contacted, no timer armed.
C15_InvalidUrlFailsFast ==
    (eiPc # "idle" /\ ~WellFormedAbsolute(productUrl)) =>
        /\ eiPc = "thrown"
        /\ eiResult.error = <<"Invalid URL">>
        /\ fpPc = "idle"
        /\ attempts = <<>>
        /\ timers = {}

\* extractImages was called with the relative /p and threw
C15_Witness ==
    /\ eiPc = "thrown"
    /\ productUrl = <<"/p">>
    /\ eiResult.error = <<"Invalid URL">>
    /\ fpPc = "idle"

\* the squared RGB distance of two colour strings
SquaredDistance(h1, h2) == SumOfSquares(hexToRgb(h1), hexToRgb(h2))

\* no entry of the palette is strictly nearer to hex than the entry returned
NearestOf(ret, hex, palette) ==
    /\ ~ret.isNull
    /\ ret.color \in Range(palette)
    /\ \A other \in Range(palette) :
           SquaredDistance(hex, other) >= SquaredDistance(hex, ret.color)

\* C16 (as stated): findClosestStyleColor returns none when the reference
\* palette is empty; otherwise, whatever string it is given, it returns a
\* palette entry such that no other entry is strictly nearer to the input.
C16_AsStated ==
    fc.pc = "done" =>
        IF fc.seen = <<>> THEN fc.ret.isNull ELSE NearestOf(fc.ret, fc.hex, fc.seen)

\* C16 (amended): findClosestStyleColor returns none when the reference
\* palette is empty or the input is not a six-digit hex colour; otherwise it
\* returns a palette entry such that no other entry is strictly nearer.
C16_NearestOrNone ==
    fc.pc = "done" =>
        IF fc.seen = <<>> \/ ~hexToRgb(fc.hex).ok THEN fc.ret.isNull
        ELSE NearestOf(fc.ret, fc.hex, fc.seen)

\* a palette of three entries, the input nearest to the second or third
C16_Witness ==
    /\ fc.pc = "done"
    /\ Len(fc.seen) = 3
    /\ ~fc.ret.isNull
    /\ fc.ret.color # fc.seen[1]
    /\ fc.ret.color \notin {fc.hex}

(***************************************************************************)
(* The CORS proxy                                                          *)
(***************************************************************************)

\* the target host is localhost or an address of 127.0.0.1, 0.0.0.0,
\* 10.0.0.0/8, 172.16.0.0/12, 192.168.0.0/16
InternalTarget(target) ==
    /\ target.kind = "url"
    /\ IF target.octets = <<>>
         THEN HostToLowerCase(target.name) = <<"l", "o", "c", "a", "l", "h", "o", "s", "t">>
         ELSE \/ target.octets \in {<<127, 0, 0, 1>>, <<0, 0, 0, 0>>}
              \/ target.octets[1] = 10
              \/ target.octets[1] = 172 /\ target.octets[2] \in 16..31
              \/ target.octets[1] = 192 /\ target.octets[2] = 168

\* C17: for every GET request whose target host is localhost or a
\* private-network address (127.0.0.1, 0.0.0.0, 10.0.0.0/8, 172.16.0.0/12,
\* 192.168.0.0/16) the handler answers 403 and never issues the upstream
\* fetch.
C17_AsStated ==
    (cpPc # "idle" /\ cpReq.method = "GET" /\ InternalTarget(cpReq.target)) =>
        /\ cpPc = "done"
        /\ cpRes.status = 403
        /\ cpUpstream = <<>>

\* the attempts that have been started and have neither failed nor returned
Unfinished == Len(contacted) - Len(attempts)

\* C18: the proxies are contacted one after another in the configured order,
\* each at most once; at most one attempt is unfinished at any time; an attempt
\* starts only after every earlier one has failed; and once an attempt has
\* returned a page no further proxy is contacted.
C18_SequentialInOrder ==
    /\ Len(contacted) <= Len(proxies)
    /\ \A j \in 1..Len(contacted) : contacted[j] = j
    /\ Unfinished \in {0, 1}
    /\ (fpPc \in {"fetch", "body"}) =>
          /\ Unfinished = 1
          /\ contacted[Len(contacted)] = fpIdx
          /\ \A k \in 1..Len(attempts) : AttemptFailedAt(k)
    /\ (fpPc = "returned") =>
          /\ Unfinished = 0
          /\ DeliveredString(Len(attempts), MinHtmlLength + 1)
          /\ \A k \in 1..(Len(attempts) - 1) : AttemptFailedAt(k)
    /\ (fpPc = "thrown") =>
          /\ Unfinished = 0
          /\ Len(contacted) = Len(proxies)

\* the third proxy is being contacted after the first two failed
C18_Witness ==
    /\ fpPc = "fetch"
    /\ contacted = <<1, 2, 3>>
    /\ Len(attempts) = 2
    /\ AttemptFailedAt(1) /\ AttemptFailedAt(2)

\* fetchPage has ended: it returned the markup or threw the aggregated failure
Terminated == fpPc \in {"returned", "thrown"}

\* C19 (as stated): every attempt is bounded by the 15-second timeout, headers
\* and body alike, so fetchPage always terminates, returning markup or raising
\* the aggregated failure, whatever the relays do.
C19_AsStated == <>Terminated

\* the initial empty palette and the complete results of the extractPalette
\* calls that have returned
CompletePalettes == {<<>>} \cup published

\* C20: this.brandColors is at every point the initial empty palette or the
\* complete result of an earlier extractPalette call, also while a call is
\* suspended on an image, and so is the palette every validateColors and
\* findClosestStyleColor call has read.
C20_NeverPartial ==
    /\ brandColors \in CompletePalettes
    /\ (val.pc = "done") => val.seen.brand \in CompletePalettes
    /\ (fc.pc = "done") => fc.seen \in CompletePalettes

\* a call is suspended on its second image, with colours already pushed, and
\* both readers have read the palette an earlier call left
C20_Witness ==
    /\ \E c \in Calls : /\ ex[c].pc = "await"
                         /\ ex[c].allColors # <<>>
                         /\ brandColors # <<>>
                         /\ brandColors # ex[c].allColors
    /\ val.pc = "done" /\ val.seen.brand = brandColors
    /\ fc.pc = "done" /\ fc.seen = brandColors

\* the colours the images of a batch push to allColors, in batch order
RECURSIVE PushedColors(_)
PushedColors(batch) ==
    IF batch = <<>> THEN <<>>
    ELSE extractColorsFromImage(Head(batch)) \o PushedColors(Tail(batch))

\* the orders a batch of n images can come in
Orders(n) == {p \in [1..n -> 1..n] : \A i, j \in 1..n : p[i] = p[j] => i = j}

Reordered(batch, p) == [k \in 1..Len(batch) |-> batch[p[k]]]

\* C21 (as stated): for every batch and every permutation of it, extractPalette
\* returns the same palette, the same colours in the same order.
C21_AsStated ==
    \A c \in Calls :
        (ex[c].pc = "done") =>
            \A p \in Orders(Len(ex[c].assets)) :
                clusterColors(PushedColors(Reordered(ex[c].assets, p))) = ex[c].ret

\* the number of sampled pixels of an image that quantize to a colour
SampledPixels(img, color) ==
    IF ~img.decodes THEN 0
    ELSE LET colorCounts == SamplePixels(img.pixels, 0, <<>>)
             hits == {k \in 1..Len(colorCounts) : colorCounts[k].key = color}
         IN  IF hits = {} THEN 0 ELSE colorCounts[CHOOSE k \in hits : TRUE].n

RECURSIVE PixelTotal(_, _)
PixelTotal(batch, color) ==
    IF batch = <<>> THEN 0
    ELSE SampledPixels(Head(batch), color) + PixelTotal(Tail(batch), color)

\* C22 (as stated): the frequency by which clusterColors ranks a colour is the
\* sum, over the images of the batch, of the sampled pixels of the image that
\* quantize to that colour.
C22_AsStated ==
    \A c \in Calls :
        (ex[c].pc = "done") =>
            LET counts == CountColors(ex[c].allColors, 1, <<>>)
            IN  \A k \in 1..Len(counts) :
                    counts[k].n = PixelTotal(ex[c].assets, counts[k].key)

\* an image that fails: it does not decode, or it cannot be sampled because
\* one side of its canvas is 0
FailingImage(img) ==
    \/ ~img.decodes
    \/ CanvasSide(img.width, img) = 0
    \/ CanvasSide(img.height, img) = 0

Sound(img) == ~FailingImage(img)

\* what the batch contributes once the failing images are removed
PaletteWithoutFailures(batch) == clusterColors(PushedColors(SelectSeq(batch, Sound)))

\* C23 (as stated): extractPalette continues past every image that fails to
\* decode or to sample: it never stops at one, and the palette it stores and
\* returns is the palette of the batch without the failing images.
C23_AsStated ==
    \A c \in Calls :
        /\ ex[c].pc # "stalled"
        /\ (ex[c].pc = "done") =>
              /\ ex[c].ret = PaletteWithoutFailures(ex[c].assets)
              /\ brandColors = ex[c].ret

\* the ways a call of extractImages can have ended
EndedInvalid == eiPc = "thrown" /\ eiResult.error = InvalidUrlMessage
EndedExhausted ==
    /\ eiPc = "thrown"
    /\ eiResult.error # <<>>
    /\ eiResult.error[1] = "All proxies failed. Last error: "
EndedNoImages == eiPc = "thrown" /\ eiResult.error = NoImagesMessage
EndedWithImages == eiPc = "returned" /\ eiResult.error = <<>>

Truths(flags) == Cardinality({k \in 1..Len(flags) : flags[k]})

\* C24: the no-images error is thrown exactly when fetchPage returned markup
\* and no candidate survives the filter; every call that ends ends in exactly
\* one of invalid URL, exhausted chain, no images, or a list of images, the
\* three errors carry different messages, and a returned list is never empty.
C24_OneOutcomePerCall ==
    (eiPc \in {"returned", "thrown"}) =>
        /\ Truths(<<EndedInvalid, EndedExhausted, EndedNoImages, EndedWithImages>>) = 1
        /\ EndedNoImages <=> (fpPc = "returned" /\ parseImages(pageHtml) = <<>>)
        /\ EndedExhausted <=> (fpPc = "thrown")
        /\ EndedInvalid <=> ~WellFormedAbsolute(productUrl)
        /\ EndedWithImages => eiResult.images # <<>>
        /\ (eiPc = "thrown") => eiResult.images = <<>>

\* fetchPage returned a page that holds an element, none of its URLs survived,
\* and extractImages threw the no-images error
C24_Witness ==
    /\ EndedNoImages
    /\ fpPc = "returned"
    /\ pageHtml # <<>>
    /\ attempts # <<>>

\* the URL ends in a recognized image file extension
HasImageExtension(url) ==
    /\ url # <<>>
    /\ LowerToken(url[Len(url)]) \in {".jpg", ".jpeg", ".png", ".webp", ".gif"}

\* C25 (as stated): every URL parseImages returns, whichever strategy
\* collected it, has a recognized image file extension.
C25_AsStated ==
    (eiPc = "returned") =>
        \A k \in 1..Len(eiResult.images) : HasImageExtension(eiResult.images[k])

\* the lowercase form of the URL contains a denylisted substring
ContainsDenied(url) ==
    \E k \in 1..Len(url) :
        LowerToken(url[k]) \in {"logo", "icon", "sprite", "nav-", "button", "badge", "banner",
                                "arrow", "checkbox", "_ss40", "_ss50", "transparent-pixel"}

\* the URL without its query string
RECURSIVE WithoutQuery(_)
WithoutQuery(url) ==
    IF url = <<>> \/ Head(url) \in {"?v=1", "?f="} THEN <<>>
    ELSE <<Head(url)>> \o WithoutQuery(Tail(url))

\* C26 (as stated): isProductImage rejects every URL whose lowercase form
\* contains a denylisted substring, the thumbnail tokens _SS40 and _SS50
\* included, and accepts any other URL exactly when the URL without its query
\* string ends in a recognized image extension.
C26_AsStated ==
    (heuristic.pc = "done") =>
        (heuristic.ret <=> (/\ ~ContainsDenied(heuristic.url)
                            /\ HasImageExtension(WithoutQuery(heuristic.url))))

\* C27 (as stated): extractPalette called with an empty list is rejected: the
\* call does not complete with a palette and this.brandColors stays as it was.
C27_AsStated ==
    [][\A c \in Calls :
          (ex'[c] # ex[c] /\ ex'[c].size = 0) =>
              /\ ex'[c].pc # "done"
              /\ brandColors' = brandColors]_vars

\* a JSON-LD block whose walk throws
ThrowsWhenWalked(el) ==
    /\ el.tag = "ld+json"
    /\ el.json.t # "invalid"
    /\ extractFromJsonLd(el.json, Collected(<<>>)).threw

\* a JSON-LD block or dynamic-image map that JSON.parse rejects
FailsToParse(el) == el.tag \in {"ld+json", "data-a-dynamic-image"} /\ el.json.t = "invalid"

Healthy(el) == ~FailsToParse(el) /\ ~ThrowsWhenWalked(el)

\* C28 (as stated): a JSON-LD block or dynamic-image map that fails to parse,
\* or that throws while walked, is skipped: parseImages does not raise and
\* returns what the page yields without the failing blocks.
C28_AsStated ==
    (eiPc \in {"returned", "thrown"}) =>
        LET rest == parseImages(SelectSeq(pageHtml, Healthy))
        IN  /\ (eiPc = "thrown") => (eiResult.error = NoImagesMessage /\ rest = <<>>)
            /\ eiResult.images = rest

\* C28: a JSON-LD block or dynamic-image map that fails to parse, or that
\* throws while walked, does not make parseImages raise and takes no candidate
\* of the other blocks and strategies away: what the page yields without the
\* failing blocks is still returned, and when no block throws, exactly that:
\* a block that fails to parse adds nothing.
C28_FailuresSwallowed ==
    (eiPc \in {"returned", "thrown"}) =>
        LET rest == parseImages(SelectSeq(pageHtml, Healthy))
        IN  /\ (eiPc = "thrown") => (eiResult.error = NoImagesMessage /\ rest = <<>>)
            /\ (Len(eiResult.images) < MaxImages) => Range(rest) \subseteq Range(eiResult.images)
            /\ (\A i \in 1..Len(pageHtml) : ~ThrowsWhenWalked(pageHtml[i])) => eiResult.images = rest

\* a page with a block whose walk throws, and images returned
C28_Witness ==
    /\ eiPc = "returned"
    /\ eiResult.images # <<>>
    /\ \E i \in 1..Len(pageHtml) : ThrowsWhenWalked(pageHtml[i])

\* where a colour is first seen in a list
FirstSeen(colors, x) == CHOOSE k \in 1..Len(colors) : colors[k] = x /\ \A j \in 1..(k - 1) : colors[j] # x

\* x comes before y in the order of dominance: more frequent, or as frequent
\* and seen first
Dominates(colors, x, y) ==
    \/ CountIn(colors, x) > CountIn(colors, y)
    \/ CountIn(colors, x) = CountIn(colors, y) /\ FirstSeen(colors, x) <= FirstSeen(colors, y)

\* mean brightness strictly between 20 and 235
MidBrightness(x) ==
    LET rgb == hexToRgb(x)
    IN  rgb.ok /\ rgb.r + rgb.g + rgb.b > 3 * 20 /\ rgb.r + rgb.g + rgb.b < 3 * 235

\* C29: the palette clusterColors returns is ordered by dominance: its entries
\* come in non-increasing frequency, equally frequent entries in first-seen
\* order, and its first entry is the most frequent colour (the first seen of
\* them) whose mean brightness lies strictly between 20 and 235; the palette
\* is empty only when there is no such colour.
C29_OrderedByDominance ==
    \A c \in Calls :
        (ex[c].pc = "done") =>
            LET colors == ex[c].allColors
                palette == ex[c].ret
            IN  /\ \A i, j \in 1..Len(palette) :
                      i < j => (Dominates(colors, palette[i], palette[j]) /\ palette[i] # palette[j])
                /\ (palette # <<>>) =>
                      /\ MidBrightness(palette[1])
                      /\ palette[1] \in Range(colors)
                      /\ \A x \in Range(colors) :
                            MidBrightness(x) => Dominates(colors, palette[1], x)
                /\ (palette = <<>>) => \A x \in Range(colors) : ~MidBrightness(x)

\* a colour too dark or too bright dominates every other colour of the list,
\* and the palette starts with a colour more frequent than its second entry
\* although that one was seen earlier
C29_Witness ==
    /\ ex[1].pc = "done"
    /\ Len(ex[1].ret) >= 2
    /\ \E x \in Range(ex[1].allColors) :
          ~MidBrightness(x) /\ Dominates(ex[1].allColors, x, ex[1].ret[1])
    /\ CountIn(ex[1].allColors, ex[1].ret[1]) > CountIn(ex[1].allColors, ex[1].ret[2])
    /\ FirstSeen(ex[1].allColors, ex[1].ret[2]) < FirstSeen(ex[1].allColors, ex[1].ret[1])

\* C30 (as stated): when a second extractPalette call starts while an earlier
\* one is suspended, then once both have completed this.brandColors is the
\* palette of the call started later.
C30_AsStated ==
    (ex[1].pc = "done" /\ ex[2].pc = "done") => brandColors = ex[2].ret

====
